---- MODULE Spec2Model ----
(***************************************************************************)
(* Model of the GiveAGift edge function                                    *)
(* (supabase/functions/make-server-db41cb13/index.ts): the request         *)
(* handlers for profiles, categories, notes, submit and search-gifts, the  *)
(* key-value store they write and the two Postgres tables (profiles,       *)
(* memory_items) they mirror into.                                         *)
(*                                                                         *)
(* Every handler is an async function: each `await` of a store call or of  *)
(* the embedding provider is one step of the model, so the steps of        *)
(* requests that are in flight at the same time interleave.                *)
(*                                                                         *)
(* Timestamps (createdAt, updatedAt) are left out of the records: no       *)
(* handler reads them.                                                     *)
(***************************************************************************)
EXTENDS Integers, Sequences, FiniteSets, TLC

VARIABLES
    kv,              \* the key-value table: a set of rows [key, value]
    memory_items,    \* Postgres table memory_items: a set of rows
    profiles,        \* Postgres table profiles: a set of rows
    req,             \* the requests: what each was sent and where its handler stands
    uuidCtr,         \* how many ids crypto.randomUUID() has handed out
    embeddingModel,  \* TRUE when GEMINI_API_KEY was set at start-up
    faults,          \* how many calls (store or provider) have gone wrong so far
    storeFailed      \* TRUE once a call to either store has failed

vars == <<kv, memory_items, profiles, req, uuidCtr, embeddingModel, faults, storeFailed>>

----------------------------------------------------------------------------
(* Bounds of the model *)

\* requests sent during one run (all of them may be in flight together)
MaxRequests == 2
\* calls that go wrong during one run
MaxFaults == 1

(* Program constants *)

\* the profile limit of the create-profile handler
MaxProfiles == 5
\* length of the zero vector generateSimpleEmbedding returns for blank text
EmbeddingDim == 768
\* how many scored notes search-gifts keeps: .slice(0, 10)
TopK == 10

----------------------------------------------------------------------------
(* JavaScript values.  A value carries its typeof tag, so that the          *)
(* handlers' truthiness and typeof tests are computed, not assumed.        *)
(* A string is a sequence of one-character strings.                        *)

Undefined == [t |-> "undefined"]
Null == [t |-> "null"]
Str(s) == [t |-> "string", v |-> s]
Num(n) == [t |-> "number", v |-> n]
\* An array of numbers of length len whose first Len(v) components are v and
\* whose other components are 0.
Arr(len, v) == [t |-> "array", len |-> len, v |-> v]

\* JavaScript truthiness (an array is an object: always truthy)
Truthy(x) ==
    CASE x.t = "undefined" -> FALSE
      [] x.t = "null" -> FALSE
      [] x.t = "string" -> x.v # <<>>
      [] x.t = "number" -> x.v # 0
      [] OTHER -> TRUE

\* a || b
OrElse(a, b) == IF Truthy(a) THEN a ELSE b

\* obj.f, undefined when the object has no such field
Field(obj, f) == IF f \in DOMAIN obj THEN obj[f] ELSE Undefined

WhiteSpace == {" "}

RECURSIVE TrimStart(_)
TrimStart(s) ==
    IF s # <<>> /\ Head(s) \in WhiteSpace THEN TrimStart(Tail(s)) ELSE s

RECURSIVE TrimEnd(_)
TrimEnd(s) ==
    IF s # <<>> /\ s[Len(s)] \in WhiteSpace
    THEN TrimEnd(SubSeq(s, 1, Len(s) - 1))
    ELSE s

\* String.prototype.trim
Trim(s) == TrimEnd(TrimStart(s))

LowerOf(c) ==
    CASE c = "M" -> "m"
      [] c = "D" -> "d"
      [] OTHER -> c

\* String.prototype.toLowerCase
ToLowerCase(s) == [i \in 1..Len(s) |-> LowerOf(s[i])]

----------------------------------------------------------------------------
(* Identifiers *)

Users == {"u1", "u2"}
NoUser == "nobody"

\* What supabase.auth.getUser(accessToken) answers: the user of a valid
\* token, no user for a missing ("none") or an invalid one.
Verify(tok) ==
    CASE tok = "tok1" -> "u1"
      [] tok = "tok2" -> "u2"
      [] OTHER -> NoUser

\* crypto.randomUUID(): the i-th id handed out; no id is handed out twice.
UuidPool ==
    <<"g01", "g02", "g03", "g04", "g05", "g06", "g07", "g08", "g09", "g10",
      "g11", "g12", "g13", "g14", "g15", "g16", "g17", "g18", "g19", "g20">>
Uuid(i) == UuidPool[i]

----------------------------------------------------------------------------
(* The key-value store (kv_store.tsx).  Keys are the handlers' template     *)
(* strings `user:${u}:profile:${p}[:note:${n} | :category:${c}]`, kept as   *)
(* the sequence of their colon-separated parts.                            *)

ProfileKey(u, p) == <<"user", u, "profile", p>>
NoteKey(u, p, n) == <<"user", u, "profile", p, "note", n>>
CategoryKey(u, p, c) == <<"user", u, "profile", p, "category", c>>

\* the prefix of the notes of a profile without the caller's id in it
NotePrefixOfFirstUser(u, p) == <<"user", "u1", "profile", p, "note">>

\* prefixes `user:${u}:profile:`, `...:${p}:note:` and `...:${p}:category:`
UserPrefix(u) == <<"user", u, "profile">>
NotePrefix(u, p) == <<"user", u, "profile", p, "note">>
CategoryPrefix(u, p) == <<"user", u, "profile", p, "category">>

StartsWith(k, prefix) ==
    /\ Len(prefix) <= Len(k)
    /\ SubSeq(k, 1, Len(prefix)) = prefix

\* kv.set(key, value): the row of that key is replaced
KvSet(store, k, val) ==
    {row \in store : row.key # k} \cup {[key |-> k, value |-> val]}

\* kv.del(key)
KvDel(store, k) == {row \in store : row.key # k}

\* kv.mdel(keys)
KvMdel(store, keys) == {row \in store : row.key \notin keys}

\* kv.getByPrefix(prefix): the rows whose key starts with the prefix
KvGetByPrefix(store, prefix) == {row \in store : StartsWith(row.key, prefix)}

----------------------------------------------------------------------------
(* The Postgres mirror: supabase.from(table).upsert / delete / select.      *)
(* A call that fails changes nothing and answers {error}; it does not      *)
(* throw, and no handler but signup looks at the answer's error.           *)

\* .insert(row) in place of .upsert(row): a row with the same id stays
TableInsert(table, row) == table \cup {row}

\* .upsert(row): insert, or replace the row with the same primary key id
TableUpsert(table, row) == {x \in table : x.id # row.id} \cup {row}

\* .delete().eq(...)...: the rows that match are removed
TableDelete(table, Matches(_)) == {x \in table : ~Matches(x)}

----------------------------------------------------------------------------
(* Requests *)

Requests == 1..MaxRequests

NoResponse == [code |-> 0]
Unauthorized == [code |-> 401, error |-> "Unauthorized"]
Error(code, msg) == [code |-> code, error |-> msg]
Ok(body) == [code |-> 200, body |-> body]

\* A request nobody has sent yet.  rd and wr record whether the handler has
\* called a store to read or to write; mirrorErr whether a call to the
\* mirror has answered {error}; alone whether no other request has been in
\* flight at any time while this one was; logged whether the handler's catch
\* block has written its console.log line.
IdleRequest ==
    [op |-> "none", tok |-> "none", arg |-> <<>>, pc |-> "idle", user |-> NoUser,
     loc |-> <<>>, resp |-> NoResponse, rd |-> FALSE, wr |-> FALSE,
     mirrorErr |-> FALSE, alone |-> TRUE, logged |-> FALSE]

InFlight(r) == req[r].pc \notin {"idle", "done"}
Quiescent == \A r \in Requests : ~InFlight(r)

\* the outcomes a call to a store or to the provider can have now
CallOutcomes == IF faults < MaxFaults THEN {"ok", "fail"} ELSE {"ok"}

StoreCall(o) ==
    /\ faults' = (IF o = "fail" THEN faults + 1 ELSE faults)
    /\ storeFailed' = (storeFailed \/ o = "fail")

NoCall == UNCHANGED <<faults, storeFailed>>

\* the answers of the catch blocks: console.log(`Error ...`), then status 500
Caught(resp) == resp.code = 500

Respond(q, resp) == [q EXCEPT !.pc = "done", !.resp = resp, !.logged = Caught(resp)]

\* the shape test of the profile listings:
\* item.name && item.description && !item.categoryName && !item.entry
IsProfileShape(item) ==
    /\ Truthy(Field(item, "name"))
    /\ Truthy(Field(item, "description"))
    /\ ~Truthy(Field(item, "categoryName"))
    /\ ~Truthy(Field(item, "entry"))

----------------------------------------------------------------------------
(* Initial states: user u1 has created four profiles (create-profile has   *)
(* written each to both stores), user u2 has created none; no note and no  *)
(* category is stored yet.                                                 *)

InitProfileCounts == {MaxProfiles - 1}

InitName(i) ==
    CASE i = 1 -> <<"M">>
      [] i = 2 -> <<"D">>
      [] i = 3 -> <<"m">>
      [] OTHER -> <<"D">>

InitProfile(i) ==
    [id |-> Uuid(i), name |-> Str(InitName(i)), avatar |-> Str(<<>>),
     description |-> Str(<<"d">>), userId |-> "u1"]

ProfileRow(p) ==
    [id |-> p.id, user_id |-> p.userId, name |-> p.name, avatar |-> p.avatar,
     description |-> p.description]

Init ==
    \E k \in InitProfileCounts :
        /\ kv = {[key |-> ProfileKey("u1", Uuid(i)), value |-> InitProfile(i)] : i \in 1..k}
        /\ profiles = {ProfileRow(InitProfile(i)) : i \in 1..k}
        /\ memory_items = {}
        /\ uuidCtr = k
        /\ req = [r \in Requests |-> IdleRequest]
        /\ embeddingModel \in BOOLEAN
        /\ faults = 0
        /\ storeFailed = FALSE

----------------------------------------------------------------------------
(* Inputs of the requests *)

Tokens == {"tok1", "tok2", "bad", "none"}

\* profile ids a client sends: one handed out to a profile, and one that no
\* profile ever had
ProfileIdInputs == {Uuid(1), "p0"}
\* note ids a client sends
NoteIdInputs == {"n1", "n2"}

\* bodies of create-profile: a valid one, and ones whose name or description
\* is missing, blank or no string
ValidName == Str(<<" ", "M", " ">>)
ValidDescription == Str(<<"d", " ">>)
ValidProfileInput ==
    [name |-> ValidName, avatar |-> Undefined, description |-> ValidDescription]
CreateProfileInputs ==
    {ValidProfileInput}
    \cup {[name |-> n, avatar |-> Undefined, description |-> ValidDescription] :
             n \in {Undefined, Str(<<" ">>), Num(5)}}
    \cup {[name |-> ValidName, avatar |-> Undefined, description |-> d] :
             d \in {Undefined, Str(<<" ">>)}}

\* The inputs a request with token tok is sent with.  User u1 sends every
\* input of an operation; user u2, who owns nothing at the start, sends the
\* ones in cross, which address what u1 owns; what a handler does with a
\* token that names no user does not depend on the rest of the request.
InputsFor(tok, inputs, cross) ==
    CASE Verify(tok) = "u1" -> inputs
      [] Verify(tok) = "u2" -> cross
      [] OTHER -> {CHOOSE i \in cross : TRUE}

\* a request is sent: its handler starts with the token check
Receive(r, op, tok, arg) ==
    /\ req[r].pc = "idle"
    /\ IF r = 1 THEN TRUE ELSE req[r - 1].pc # "idle"
    /\ req' = [q \in Requests |->
                 IF q = r
                 THEN [IdleRequest EXCEPT
                         !.op = op, !.tok = tok, !.arg = arg, !.pc = "auth",
                         !.alone = \A o \in Requests : ~InFlight(o)]
                 ELSE IF InFlight(q) THEN [req[q] EXCEPT !.alone = FALSE]
                 ELSE req[q]]
    /\ UNCHANGED <<kv, memory_items, profiles, uuidCtr, embeddingModel, faults, storeFailed>>

\* the first step of each handler after the token check
FirstStep(op) ==
    CASE op = "listProfiles" -> "list"
      [] op = "createProfile" -> "limit"
      [] op = "deleteProfile" -> "readNotes"
      [] op = "listCategories" -> "list"
      [] op = "listNotes" -> "list"
      [] op = "deleteNote" -> "kvdel"
      [] op = "submit" -> "lookup"
      [] op = "search" -> "resolve"
      [] OTHER -> "done"

\* the token check without its return: the handler goes on with no user
AuthFallsThrough(r) ==
    /\ req[r].pc = "auth"
    /\ req' = [req EXCEPT ![r] =
                 [@ EXCEPT !.user = Verify(req[r].tok), !.pc = FirstStep(req[r].op)]]
    /\ UNCHANGED <<kv, memory_items, profiles, uuidCtr, embeddingModel, faults, storeFailed>>

\* supabase.auth.getUser(accessToken); if (!user || authError) return 401
Auth(r) ==
    /\ req[r].pc = "auth"
    /\ LET u == Verify(req[r].tok) IN
        req' = [req EXCEPT ![r] =
                  IF u = NoUser
                  THEN Respond(@, Unauthorized)
                  ELSE [@ EXCEPT !.user = u, !.pc = FirstStep(req[r].op)]]
    /\ UNCHANGED <<kv, memory_items, profiles, uuidCtr, embeddingModel, faults, storeFailed>>

----------------------------------------------------------------------------
(* GET /profiles *)

ReceiveListProfiles(r) ==
    \E tok \in Tokens : Receive(r, "listProfiles", tok, <<>>)

ListProfiles(r) ==
    /\ req[r].pc = "list"
    /\ req[r].op = "listProfiles"
    /\ \E o \in CallOutcomes :
        /\ StoreCall(o)
        /\ LET q == [req[r] EXCEPT !.rd = TRUE]
               allItems == KvGetByPrefix(kv, UserPrefix(q.user))
               found == {row.value : row \in {x \in allItems : IsProfileShape(x.value)}}
           IN req' = [req EXCEPT ![r] =
                        IF o = "fail"
                        THEN Respond(q, Error(500, "Failed to fetch profiles"))
                        ELSE Respond(q, Ok(found))]
    /\ UNCHANGED <<kv, memory_items, profiles, uuidCtr, embeddingModel>>

----------------------------------------------------------------------------
(* POST /profiles *)

ReceiveCreateProfile(r) ==
    \E tok \in Tokens : \E arg \in InputsFor(tok, CreateProfileInputs, {ValidProfileInput}) :
        Receive(r, "createProfile", tok, arg)

\* the limit check, off by one: existingProfiles.length > 5
LimitReachedOffByOne(count) == count > MaxProfiles

\* existingProfiles && existingProfiles.length >= 5
LimitReached(count) == count >= MaxProfiles

\* !x || typeof x !== "string" || x.trim() === ""
IsBlank(x) == ~Truthy(x) \/ x.t # "string" \/ Trim(x.v) = <<>>

\* The limit check and the validation of the body; a body that passes gets
\* its profile record built, with a fresh id.
CreateProfileCheck(r) ==
    /\ req[r].pc = "limit"
    /\ \E o \in CallOutcomes :
        /\ StoreCall(o)
        /\ LET q == [req[r] EXCEPT !.rd = TRUE]
               allItems == KvGetByPrefix(kv, UserPrefix(q.user))
               existingProfiles == {x \in allItems : IsProfileShape(x.value)}
               count == Cardinality(existingProfiles)
               qc == [q EXCEPT !.loc = [count |-> count]]
               profile ==
                   [id |-> Uuid(uuidCtr + 1), name |-> Str(Trim(q.arg.name.v)),
                    avatar |-> OrElse(q.arg.avatar, Str(<<>>)),
                    description |-> Str(Trim(q.arg.description.v)),
                    userId |-> q.user]
           IN
             IF o = "fail" THEN
                /\ req' = [req EXCEPT ![r] = Respond(q, Error(500, "Failed to create profile"))]
                /\ UNCHANGED uuidCtr
             ELSE IF LimitReached(count) THEN
                /\ req' = [req EXCEPT ![r] = Respond(qc, Error(400, "Maximum 5 profiles allowed"))]
                /\ UNCHANGED uuidCtr
             ELSE IF IsBlank(q.arg.name) THEN
                /\ req' = [req EXCEPT ![r] = Respond(qc, Error(400, "Profile name is required"))]
                /\ UNCHANGED uuidCtr
             ELSE IF IsBlank(q.arg.description) THEN
                /\ req' = [req EXCEPT ![r] =
                             Respond(qc, Error(400, "Profile description is required"))]
                /\ UNCHANGED uuidCtr
             ELSE
                /\ req' = [req EXCEPT ![r] =
                             [qc EXCEPT !.pc = "kvset",
                                        !.loc = [count |-> count, profile |-> profile]]]
                /\ uuidCtr' = uuidCtr + 1
    /\ UNCHANGED <<kv, memory_items, profiles, embeddingModel>>

\* await kv.set(`user:${user.id}:profile:${profileId}`, profile)
CreateProfileKvSet(r) ==
    /\ req[r].pc = "kvset"
    /\ req[r].op = "createProfile"
    /\ \E o \in CallOutcomes :
        /\ StoreCall(o)
        /\ LET q == [req[r] EXCEPT !.wr = TRUE]
               profile == q.loc.profile
           IN IF o = "fail" THEN
                 /\ req' = [req EXCEPT ![r] = Respond(q, Error(500, "Failed to create profile"))]
                 /\ UNCHANGED kv
              ELSE
                 /\ req' = [req EXCEPT ![r] = [q EXCEPT !.pc = "upsert"]]
                 /\ kv' = KvSet(kv, ProfileKey(q.user, profile.id), profile)
    /\ UNCHANGED <<memory_items, profiles, uuidCtr, embeddingModel>>

\* await supabase.from("profiles").upsert({...}); return c.json({ profile })
CreateProfileUpsert(r) ==
    /\ req[r].pc = "upsert"
    /\ req[r].op = "createProfile"
    /\ \E o \in CallOutcomes :
        /\ StoreCall(o)
        /\ LET q == [req[r] EXCEPT !.wr = TRUE, !.mirrorErr = (o = "fail")]
               profile == q.loc.profile
           IN /\ req' = [req EXCEPT ![r] = Respond(q, Ok(profile))]
              /\ profiles' = (IF o = "fail" THEN profiles
                              ELSE TableUpsert(profiles, ProfileRow(profile)))
    /\ UNCHANGED <<kv, memory_items, uuidCtr, embeddingModel>>

----------------------------------------------------------------------------
(* DELETE /profiles/:profileId *)

ReceiveDeleteProfile(r) ==
    \E tok \in Tokens : \E p \in InputsFor(tok, ProfileIdInputs, {Uuid(1)}) :
        Receive(r, "deleteProfile", tok, [profileId |-> p])

\* const notes = await kv.getByPrefix(`user:${user.id}:profile:${profileId}:note:`)
DeleteProfileReadNotes(r) ==
    /\ req[r].pc = "readNotes"
    /\ \E o \in CallOutcomes :
        /\ StoreCall(o)
        /\ LET q == [req[r] EXCEPT !.rd = TRUE]
               notes == KvGetByPrefix(kv, NotePrefix(q.user, q.arg.profileId))
           IN req' = [req EXCEPT ![r] =
                        IF o = "fail"
                        THEN Respond(q, Error(500, "Failed to delete profile"))
                        ELSE [q EXCEPT !.pc = "readCategories",
                                       !.loc = [notes |-> {x.value.id : x \in notes}]]]
    /\ UNCHANGED <<kv, memory_items, profiles, uuidCtr, embeddingModel>>

\* const categories = await kv.getByPrefix(`...:category:`), then keysToDelete
DeleteProfileReadCategories(r) ==
    /\ req[r].pc = "readCategories"
    /\ \E o \in CallOutcomes :
        /\ StoreCall(o)
        /\ LET q == req[r]
               u == q.user
               p == q.arg.profileId
               categories == KvGetByPrefix(kv, CategoryPrefix(u, p))
               keysToDelete ==
                   {ProfileKey(u, p)}
                   \cup {NoteKey(u, p, n) : n \in q.loc.notes}
                   \cup {CategoryKey(u, p, x.value.id) : x \in categories}
           IN req' = [req EXCEPT ![r] =
                        IF o = "fail"
                        THEN Respond(q, Error(500, "Failed to delete profile"))
                        ELSE [q EXCEPT !.pc = "mdel",
                                       !.loc = [keysToDelete |-> keysToDelete]]]
    /\ UNCHANGED <<kv, memory_items, profiles, uuidCtr, embeddingModel>>

\* await kv.mdel(keysToDelete)
DeleteProfileMdel(r) ==
    /\ req[r].pc = "mdel"
    /\ \E o \in CallOutcomes :
        /\ StoreCall(o)
        /\ LET q == [req[r] EXCEPT !.wr = TRUE] IN
             IF o = "fail" THEN
                /\ req' = [req EXCEPT ![r] = Respond(q, Error(500, "Failed to delete profile"))]
                /\ UNCHANGED kv
             ELSE
                /\ req' = [req EXCEPT ![r] = [q EXCEPT !.pc = "deleteItems"]]
                /\ kv' = KvMdel(kv, q.loc.keysToDelete)
    /\ UNCHANGED <<memory_items, profiles, uuidCtr, embeddingModel>>

\* await supabase.from("memory_items").delete().eq("user_id", ..).eq("profile_id", ..)
DeleteProfileMemoryItems(r) ==
    /\ req[r].pc = "deleteItems"
    /\ \E o \in CallOutcomes :
        /\ StoreCall(o)
        /\ LET q == req[r]
               Matches(x) == x.user_id = q.user /\ x.profile_id = q.arg.profileId
           IN /\ req' = [req EXCEPT ![r] =
                           [q EXCEPT !.pc = "deleteProfileRow",
                                     !.mirrorErr = (@ \/ o = "fail")]]
              /\ memory_items' = (IF o = "fail" THEN memory_items
                                  ELSE TableDelete(memory_items, Matches))
    /\ UNCHANGED <<kv, profiles, uuidCtr, embeddingModel>>

\* await supabase.from("profiles").delete().eq("user_id", ..).eq("id", ..);
\* return c.json({ success: true })
DeleteProfileRow(r) ==
    /\ req[r].pc = "deleteProfileRow"
    /\ \E o \in CallOutcomes :
        /\ StoreCall(o)
        /\ LET q == [req[r] EXCEPT !.mirrorErr = (@ \/ o = "fail")]
               Matches(x) == x.user_id = q.user /\ x.id = q.arg.profileId
           IN /\ req' = [req EXCEPT ![r] = Respond(q, Ok("success"))]
              /\ profiles' = (IF o = "fail" THEN profiles
                              ELSE TableDelete(profiles, Matches))
    /\ UNCHANGED <<kv, memory_items, uuidCtr, embeddingModel>>

----------------------------------------------------------------------------
(* GET /profiles/:profileId/categories and GET /profiles/:profileId/notes *)

ReceiveListCategories(r) ==
    \E tok \in Tokens : \E p \in InputsFor(tok, ProfileIdInputs, {Uuid(1)}) :
        Receive(r, "listCategories", tok, [profileId |-> p])

ListCategories(r) ==
    /\ req[r].pc = "list"
    /\ req[r].op = "listCategories"
    /\ \E o \in CallOutcomes :
        /\ StoreCall(o)
        /\ LET q == [req[r] EXCEPT !.rd = TRUE]
               categories == KvGetByPrefix(kv, CategoryPrefix(q.user, q.arg.profileId))
           IN req' = [req EXCEPT ![r] =
                        IF o = "fail"
                        THEN Respond(q, Error(500, "Failed to fetch categories"))
                        ELSE Respond(q, Ok({x.value : x \in categories}))]
    /\ UNCHANGED <<kv, memory_items, profiles, uuidCtr, embeddingModel>>

ReceiveListNotes(r) ==
    \E tok \in Tokens : \E p \in InputsFor(tok, ProfileIdInputs, {Uuid(1)}) :
        Receive(r, "listNotes", tok, [profileId |-> p])

ListNotes(r) ==
    /\ req[r].pc = "list"
    /\ req[r].op = "listNotes"
    /\ \E o \in CallOutcomes :
        /\ StoreCall(o)
        /\ LET q == [req[r] EXCEPT !.rd = TRUE]
               notes == KvGetByPrefix(kv, NotePrefix(q.user, q.arg.profileId))
           IN req' = [req EXCEPT ![r] =
                        IF o = "fail"
                        THEN Respond(q, Error(500, "Failed to fetch notes"))
                        ELSE Respond(q, Ok({x.value : x \in notes}))]
    /\ UNCHANGED <<kv, memory_items, profiles, uuidCtr, embeddingModel>>

----------------------------------------------------------------------------
(* DELETE /profiles/:profileId/notes/:noteId *)

ReceiveDeleteNote(r) ==
    \E tok \in Tokens :
        \E arg \in InputsFor(tok, [profileId : ProfileIdInputs, noteId : NoteIdInputs],
                              {[profileId |-> Uuid(1), noteId |-> "n1"]}) :
            Receive(r, "deleteNote", tok, arg)

\* await kv.del(`user:${user.id}:profile:${profileId}:note:${noteId}`)
DeleteNoteKvDel(r) ==
    /\ req[r].pc = "kvdel"
    /\ \E o \in CallOutcomes :
        /\ StoreCall(o)
        /\ LET q == [req[r] EXCEPT !.wr = TRUE] IN
             IF o = "fail" THEN
                /\ req' = [req EXCEPT ![r] = Respond(q, Error(500, "Failed to delete note"))]
                /\ UNCHANGED kv
             ELSE
                /\ req' = [req EXCEPT ![r] = [q EXCEPT !.pc = "deleteItem"]]
                /\ kv' = KvDel(kv, NoteKey(q.user, q.arg.profileId, q.arg.noteId))
    /\ UNCHANGED <<memory_items, profiles, uuidCtr, embeddingModel>>

\* await supabase.from("memory_items").delete().eq("user_id", ..)
\*   .eq("profile_id", ..).eq("id", noteId); return c.json({ success: true })
DeleteNoteMemoryItem(r) ==
    /\ req[r].pc = "deleteItem"
    /\ \E o \in CallOutcomes :
        /\ StoreCall(o)
        /\ LET q == [req[r] EXCEPT !.mirrorErr = (o = "fail")]
               Matches(x) ==
                   /\ x.user_id = q.user
                   /\ x.profile_id = q.arg.profileId
                   /\ x.id = q.arg.noteId
           IN /\ req' = [req EXCEPT ![r] = Respond(q, Ok("success"))]
              /\ memory_items' = (IF o = "fail" THEN memory_items
                                  ELSE TableDelete(memory_items, Matches))
    /\ UNCHANGED <<kv, profiles, uuidCtr, embeddingModel>>

----------------------------------------------------------------------------
(* The embedding provider (generateSimpleEmbedding) *)

\* what embeddingModel.embedContent(text) computes for a text: the leading
\* components of a vector of EmbeddingDim components
ProviderValues(text) ==
    CASE text = <<"a">> -> <<1, 0>>
      [] text = <<"b">> -> <<0, 1>>
      [] text = <<"n">> -> <<-1, 0>>
      [] OTHER -> <<1, 1>>

\* new Array(768).fill(0)
ZeroVector == Arr(EmbeddingDim, <<>>)

\* the test of the text without its trim: only the empty text is blank
IsBlankTextEmptyOnly(text) == text = <<>>

\* const clean = (text ?? "").toString(); if (!clean.trim()) ...
IsBlankText(text) == Trim(text) = <<>>

\* What the provider can answer for a text that is not blank: its vector; or,
\* when the call goes wrong, an error, an answer without values, or a vector
\* of another length.
EmbedOutcomes == IF faults < MaxFaults THEN {"ok", "throw", "novalues", "short"} ELSE {"ok"}

\* result.embedding.values || []
EmbedResult(text, o) ==
    CASE o = "ok" -> Arr(EmbeddingDim, ProviderValues(text))
      [] o = "short" -> Arr(Len(ProviderValues(text)), ProviderValues(text))
      [] OTHER -> Arr(0, <<>>)

----------------------------------------------------------------------------
(* POST /profiles/:profileId/submit *)

NoteInput(id, entry) == [id |-> id, entry |-> entry, categoryId |-> "c1"]

\* the bodies of submit: { categories, notes }
SubmitBodyA ==
    [categories |-> <<[id |-> "c1", name |-> Str(<<"k">>)]>>,
     notes |-> <<NoteInput("n1", Str(<<"a">>))>>]
\* two notes, one of them with blank text
SubmitBodyB ==
    [categories |-> <<>>,
     notes |-> <<NoteInput("n1", Str(<<"b">>)), NoteInput("n2", Str(<<" ">>))>>]
\* a category and a note that carry no id
SubmitBodyC ==
    [categories |-> <<[name |-> Str(<<"k">>)]>>,
     notes |-> <<[entry |-> Str(<<"a">>), categoryId |-> "c1"]>>]
\* no categories field, no notes
SubmitBodyD == [notes |-> <<>>]

SubmitBodies == {SubmitBodyA, SubmitBodyB, SubmitBodyC, SubmitBodyD}

ReceiveSubmit(r) ==
    \E tok \in Tokens :
        \E arg \in InputsFor(tok, [profileId : ProfileIdInputs, body : SubmitBodies],
                              {[profileId |-> Uuid(1), body |-> SubmitBodyA]}) :
            Receive(r, "submit", tok, arg)

\* (xs || []) for a field of the body that may be missing
ListOf(body, f) == IF f \in DOMAIN body THEN body[f] ELSE <<>>

\* x.id || crypto.randomUUID(), for the k-th item of the body without an id
IdOf(x, k) == IF "id" \in DOMAIN x THEN x.id ELSE Uuid(uuidCtr + k)

\* how many of the first i items of xs carry no id
RECURSIVE MissingIds(_, _)
MissingIds(xs, i) ==
    IF i = 0 THEN 0
    ELSE MissingIds(xs, i - 1) + (IF "id" \in DOMAIN xs[i] THEN 0 ELSE 1)

\* The branches Promise.all waits for, as they stand when the handler reaches
\* that await: every kv.set of a category has been called; a note's async
\* function has run up to its first await that leaves the process.
CategoryBranch(x, k) ==
    [kind |-> "category", st |-> "kvset", id |-> IdOf(x, k), item |-> x]

NoteBranch(x, k) ==
    LET textContent == OrElse(Field(x, "entry"), Str(<<>>)).v IN
    [kind |-> "note", id |-> IdOf(x, k), item |-> x,
     st |-> IF ~embeddingModel THEN "rejected"
            ELSE IF IsBlankText(textContent) THEN "kvset"
            ELSE "embed",
     embedding |-> IF embeddingModel /\ IsBlankText(textContent)
                   THEN ZeroVector ELSE Undefined,
     upsertErr |-> FALSE]

Branches(body) ==
    LET cs == ListOf(body, "categories")
        ns == ListOf(body, "notes")
        nc == MissingIds(cs, Len(cs))
    IN [i \in 1..Len(cs) |-> CategoryBranch(cs[i], MissingIds(cs, i))]
       \o [i \in 1..Len(ns) |-> NoteBranch(ns[i], nc + MissingIds(ns, i))]

Settled(b) == b.st \in {"fulfilled", "rejected"}

\* Promise.all that cancels the branches still running when one rejects
SettleCancelsSiblings(q, br, msg) ==
    LET answered == q.resp # NoResponse
        rejected == \E i \in 1..Len(br) : br[i].st = "rejected"
        allOk == \A i \in 1..Len(br) : br[i].st = "fulfilled"
        resp == IF answered THEN q.resp
                ELSE IF rejected THEN Error(500, msg)
                ELSE IF allOk THEN Ok("Notes and categories saved with vector embeddings")
                ELSE NoResponse
        left == IF rejected
                THEN [i \in 1..Len(br) |->
                        IF Settled(br[i]) THEN br[i] ELSE [br[i] EXCEPT !.st = "rejected"]]
                ELSE br
    IN [q EXCEPT !.loc = [@ EXCEPT !.br = left],
                 !.resp = resp,
                 !.logged = Caught(resp),
                 !.pc = IF \A i \in 1..Len(left) : Settled(left[i]) THEN "done" ELSE "branches"]

\* await Promise.all([...categoryPromises, ...notePromises]) and the answer:
\* the first branch to reject makes the handler answer 500, the last one to
\* fulfil makes it answer success; branches still running run on.
Settle(q, br, msg) ==
    LET answered == q.resp # NoResponse
        rejected == \E i \in 1..Len(br) : br[i].st = "rejected"
        allOk == \A i \in 1..Len(br) : br[i].st = "fulfilled"
        resp == IF answered THEN q.resp
                ELSE IF rejected THEN Error(500, msg)
                ELSE IF allOk THEN Ok("Notes and categories saved with vector embeddings")
                ELSE NoResponse
    IN [q EXCEPT !.loc = [@ EXCEPT !.br = br],
                 !.resp = resp,
                 !.logged = Caught(resp),
                 !.pc = IF \A i \in 1..Len(br) : Settled(br[i]) THEN "done" ELSE "branches"]

\* the ids of the notes and categories stored under a profile, in either store
\* (kept by submit when it starts, for the statements about resubmission)
StoredIds(u, p) ==
    [notes |-> {x.value.id : x \in KvGetByPrefix(kv, NotePrefix(u, p))},
     categories |-> {x.value.id : x \in KvGetByPrefix(kv, CategoryPrefix(u, p))},
     rows |-> {x.id : x \in {y \in memory_items : y.user_id = u /\ y.profile_id = p}}]

\* const { data: profileRow } = await supabase.from("profiles").select("name")
\*   .eq("user_id", user.id).eq("id", profileId).maybeSingle(); then both maps
SubmitLookup(r) ==
    /\ req[r].pc = "lookup"
    /\ \E o \in CallOutcomes :
        /\ StoreCall(o)
        /\ LET q == [req[r] EXCEPT !.rd = TRUE, !.mirrorErr = (o = "fail")]
               rows == {x \in profiles : x.user_id = q.user /\ x.id = q.arg.profileId}
               profileNameForMemory ==
                   IF o = "fail" \/ rows = {} THEN Null
                   ELSE (CHOOSE x \in rows : TRUE).name
               br == Branches(q.arg.body)
               fresh == MissingIds(ListOf(q.arg.body, "categories"),
                                   Len(ListOf(q.arg.body, "categories")))
                        + MissingIds(ListOf(q.arg.body, "notes"),
                                     Len(ListOf(q.arg.body, "notes")))
           IN /\ req' = [req EXCEPT ![r] =
                    Settle([q EXCEPT !.loc = [profileName |-> profileNameForMemory, br |-> br,
                                              before |-> StoredIds(q.user, q.arg.profileId)]],
                           br, "Gemini embedding model is not initialized.")]
              /\ uuidCtr' = uuidCtr + fresh
    /\ UNCHANGED <<kv, memory_items, profiles, embeddingModel>>

\* the record submit writes for a category: { id, name, profileId, userId }
CategoryRecord(u, p, id, item) ==
    [id |-> id, name |-> Field(item, "name"), profileId |-> p, userId |-> u]

\* the record submit writes for a note:
\* { id, entry, categoryId, profileId, userId, embedding }
NoteRecord(u, p, id, item, embedding) ==
    [id |-> id, entry |-> Field(item, "entry"),
     categoryId |-> Field(item, "categoryId"),
     profileId |-> p, userId |-> u, embedding |-> embedding]

\* the row submit upserts into memory_items for a note
MemoryRow(u, p, id, item, embedding, profileName) ==
    [id |-> id, user_id |-> u, profile_id |-> p, profile_name |-> profileName,
     entry |-> Field(item, "entry"), embedding |-> embedding]

BranchAt(r, i, kind, st) ==
    /\ req[r].pc = "branches"
    /\ i \in 1..Len(req[r].loc.br)
    /\ req[r].loc.br[i].kind = kind
    /\ req[r].loc.br[i].st = st

\* kv.set(`user:..:profile:..:category:${categoryId}`, {...})
SubmitCategorySet(r, i) ==
    /\ BranchAt(r, i, "category", "kvset")
    /\ \E o \in CallOutcomes :
        /\ StoreCall(o)
        /\ LET q == [req[r] EXCEPT !.wr = TRUE]
               b == q.loc.br[i]
               category == CategoryRecord(q.user, q.arg.profileId, b.id, b.item)
           IN IF o = "fail" THEN
                 /\ req' = [req EXCEPT ![r] =
                              Settle(q, [q.loc.br EXCEPT ![i].st = "rejected"], "kv.set failed")]
                 /\ UNCHANGED kv
              ELSE
                 /\ req' = [req EXCEPT ![r] =
                              Settle(q, [q.loc.br EXCEPT ![i].st = "fulfilled"], "")]
                 /\ kv' = KvSet(kv, CategoryKey(q.user, q.arg.profileId, b.id), category)
    /\ UNCHANGED <<memory_items, profiles, uuidCtr, embeddingModel>>

\* const embedding = await generateSimpleEmbedding(textContent), text not blank
SubmitNoteEmbed(r, i) ==
    /\ BranchAt(r, i, "note", "embed")
    /\ \E o \in EmbedOutcomes :
        /\ faults' = (IF o = "ok" THEN faults ELSE faults + 1)
        /\ LET q == req[r]
               b == q.loc.br[i]
           IN req' = [req EXCEPT ![r] =
                        IF o = "throw"
                        THEN Settle(q, [q.loc.br EXCEPT ![i].st = "rejected"],
                                    "embedContent failed")
                        ELSE Settle(q, [q.loc.br EXCEPT
                                          ![i].st = "kvset",
                                          ![i].embedding = EmbedResult(b.item.entry.v, o)], "")]
    /\ UNCHANGED <<kv, memory_items, profiles, uuidCtr, embeddingModel, storeFailed>>

\* await kv.set(`user:..:profile:..:note:${noteId}`, {...})
SubmitNoteKvSet(r, i) ==
    /\ BranchAt(r, i, "note", "kvset")
    /\ \E o \in CallOutcomes :
        /\ StoreCall(o)
        /\ LET q == [req[r] EXCEPT !.wr = TRUE]
               b == q.loc.br[i]
               note == NoteRecord(q.user, q.arg.profileId, b.id, b.item, b.embedding)
           IN IF o = "fail" THEN
                 /\ req' = [req EXCEPT ![r] =
                              Settle(q, [q.loc.br EXCEPT ![i].st = "rejected"], "kv.set failed")]
                 /\ UNCHANGED kv
              ELSE
                 /\ req' = [req EXCEPT ![r] =
                              Settle(q, [q.loc.br EXCEPT ![i].st = "upsert"], "")]
                 /\ kv' = KvSet(kv, NoteKey(q.user, q.arg.profileId, b.id), note)
    /\ UNCHANGED <<memory_items, profiles, uuidCtr, embeddingModel>>

\* await supabase.from("memory_items").upsert({...})
SubmitNoteUpsert(r, i) ==
    /\ BranchAt(r, i, "note", "upsert")
    /\ \E o \in CallOutcomes :
        /\ StoreCall(o)
        /\ LET q == [req[r] EXCEPT !.wr = TRUE, !.mirrorErr = (@ \/ o = "fail")]
               b == q.loc.br[i]
               row == MemoryRow(q.user, q.arg.profileId, b.id, b.item, b.embedding,
                                q.loc.profileName)
           IN /\ req' = [req EXCEPT ![r] =
                           Settle(q, [q.loc.br EXCEPT ![i].st = "fulfilled",
                                                     ![i].upsertErr = (o = "fail")], "")]
              /\ memory_items' = (IF o = "fail" THEN memory_items
                                  ELSE TableUpsert(memory_items, row))
    /\ UNCHANGED <<kv, profiles, uuidCtr, embeddingModel>>

----------------------------------------------------------------------------
(* cosineSimilarity and the ranking of search-gifts *)

\* the i-th component of an array
At(vec, i) == IF i <= Len(vec.v) THEN vec.v[i] ELSE 0

RECURSIVE DotUpTo(_, _, _)
DotUpTo(a, b, i) ==
    IF i = 0 THEN 0 ELSE DotUpTo(a, b, i - 1) + At(a, i) * At(b, i)

\* the sum of a[i] * b[i] over all components (those past both v's are 0)
Dot(a, b) ==
    LET n == IF Len(a.v) < Len(b.v) THEN Len(a.v) ELSE Len(b.v) IN DotUpTo(a, b, n)

\* A similarity is the number dot / sqrt(den2), kept as the pair (dot, den2)
\* with den2 > 0, so that no square root is taken.
Similarity(dot, den2) == [dot |-> dot, den2 |-> den2]
ZeroSimilarity == Similarity(0, 1)

\* cosineSimilarity of VisualizePage: as the server's, without the test for
\* empty vectors (the loop then leaves both magnitudes 0)
VisualizeCosineSimilarity(vecA, vecB) ==
    IF vecA.t # "array" \/ vecB.t # "array" THEN ZeroSimilarity
    ELSE IF vecA.len # vecB.len THEN ZeroSimilarity
    ELSE LET dotProduct == Dot(vecA, vecB)
             magA2 == Dot(vecA, vecA)
             magB2 == Dot(vecB, vecB)
         IN IF magA2 = 0 \/ magB2 = 0 THEN ZeroSimilarity
            ELSE Similarity(dotProduct, magA2 * magB2)

\* cosineSimilarity with the sign of the dot product lost
CosineSimilarityUnsigned(vecA, vecB) ==
    IF vecA.t # "array" \/ vecB.t # "array" \/ vecA.len = 0 \/ vecB.len = 0
    THEN ZeroSimilarity
    ELSE IF vecA.len # vecB.len THEN ZeroSimilarity
    ELSE LET dotProduct == Dot(vecA, vecB)
             magA2 == Dot(vecA, vecA)
             magB2 == Dot(vecB, vecB)
         IN IF magA2 = 0 \/ magB2 = 0 THEN ZeroSimilarity
            ELSE Similarity(IF dotProduct < 0 THEN 0 - dotProduct ELSE dotProduct,
                            magA2 * magB2)

\* cosineSimilarity without its test of the two lengths
CosineSimilarityNoLengthCheck(vecA, vecB) ==
    IF vecA.t # "array" \/ vecB.t # "array" \/ vecA.len = 0 \/ vecB.len = 0
    THEN ZeroSimilarity
    ELSE LET dotProduct == Dot(vecA, vecB)
             magA2 == Dot(vecA, vecA)
             magB2 == Dot(vecB, vecB)
         IN IF magA2 = 0 \/ magB2 = 0 THEN ZeroSimilarity
            ELSE Similarity(dotProduct, magA2 * magB2)

\* cosineSimilarity(vecA, vecB)
CosineSimilarity(vecA, vecB) ==
    IF vecA.t # "array" \/ vecB.t # "array" \/ vecA.len = 0 \/ vecB.len = 0
    THEN ZeroSimilarity
    ELSE IF vecA.len # vecB.len THEN ZeroSimilarity
    ELSE LET dotProduct == Dot(vecA, vecB)
             magA2 == Dot(vecA, vecA)
             magB2 == Dot(vecB, vecB)
         IN IF magA2 = 0 \/ magB2 = 0 THEN ZeroSimilarity
            ELSE Similarity(dotProduct, magA2 * magB2)

\* the sign of s times its square, times the other's den2: comparing these
\* compares the similarities
Scaled(s, other) ==
    (IF s.dot < 0 THEN 0 - s.dot * s.dot ELSE s.dot * s.dot) * other.den2

\* s1 <= s2 in place of s1 < s2: equal similarities swap places in the sort
SimLessOrEqual(s1, s2) == Scaled(s1, s2) <= Scaled(s2, s1)

\* s1 < s2 as numbers
SimLess(s1, s2) == Scaled(s1, s2) < Scaled(s2, s1)

\* Array.prototype.sort((a, b) => b.similarity - a.similarity): a stable sort
\* into descending similarity
RECURSIVE InsertScored(_, _)
InsertScored(sorted, x) ==
    IF sorted = <<>> THEN <<x>>
    ELSE IF SimLess(Head(sorted).similarity, x.similarity)
         THEN <<x>> \o sorted
         ELSE <<Head(sorted)>> \o InsertScored(Tail(sorted), x)

RECURSIVE SortScored(_)
SortScored(xs) ==
    IF xs = <<>> THEN <<>>
    ELSE InsertScored(SortScored(SubSeq(xs, 1, Len(xs) - 1)), xs[Len(xs)])

\* .slice(0, k)
Slice(xs, k) == SubSeq(xs, 1, IF Len(xs) < k THEN Len(xs) ELSE k)

\* the notes cut to the first ten as listed, and only then scored and sorted
ScoredNotesCutFirst(notes, queryEmbedding) ==
    SortScored([i \in 1..Len(Slice(notes, TopK)) |->
                  [note |-> notes[i],
                   similarity |-> CosineSimilarity(
                       queryEmbedding,
                       OrElse(Field(notes[i], "embedding"), Arr(0, <<>>)))]])

\* the scored, sorted and cut list of the notes, in the order they were listed
ScoredNotes(notes, queryEmbedding) ==
    Slice(SortScored([i \in 1..Len(notes) |->
                        [note |-> notes[i],
                         similarity |-> CosineSimilarity(
                             queryEmbedding,
                             OrElse(Field(notes[i], "embedding"), Arr(0, <<>>)))]]),
          TopK)

\* the largest k in lo..hi with k = 0 or (2k - 1)^2 * den2 <= 4 * 10^8 * dot2,
\* that is with k - 1/2 <= 10000 * sqrt(dot2 / den2)
RECURSIVE RoundIn(_, _, _, _)
RoundIn(lo, hi, dot2, den2) ==
    IF lo = hi THEN lo
    ELSE LET mid == (lo + hi + 1) \div 2 IN
         IF (2 * mid - 1) * (2 * mid - 1) * den2 <= 400000000 * dot2
         THEN RoundIn(mid, hi, dot2, den2)
         ELSE RoundIn(lo, mid - 1, dot2, den2)

\* (similarity * 100).toFixed(2) + "%": the percentage rounded to two
\* decimals, kept as its number of hundredths of a percent ("70.71%" is 7071)
ToFixed2Percent(s) ==
    LET k == RoundIn(0, 10000, s.dot * s.dot, s.den2)
    IN IF s.dot < 0 THEN 0 - k ELSE k

\* one entry of relevantNotes
RelevantData(x) ==
    [noteId |-> x.note.id, entry |-> x.note.entry, profileId |-> x.note.profileId,
     relevanceScore |-> ToFixed2Percent(x.similarity)]

\* every order of a set of rows
RECURSIVE Orders(_)
Orders(rows) ==
    IF rows = {} THEN {<<>>}
    ELSE UNION {{<<x>> \o rest : rest \in Orders(rows \ {x})} : x \in rows}

\* one order of a set of rows
RECURSIVE SomeListing(_)
SomeListing(rows) ==
    IF rows = {} THEN <<>>
    ELSE LET x == CHOOSE y \in rows : TRUE IN <<x>> \o SomeListing(rows \ {x})

Reverse(xs) == [i \in 1..Len(xs) |-> xs[Len(xs) + 1 - i]]

\* the largest set of rows of which every order is explored
MaxPermuted == 3

\* the orders in which getByPrefix may return a set of rows: any order; of a
\* set of more than MaxPermuted rows, one order and its reverse are explored
Listings(rows) ==
    IF Cardinality(rows) <= MaxPermuted THEN Orders(rows)
    ELSE {SomeListing(rows), Reverse(SomeListing(rows))}

----------------------------------------------------------------------------
(* POST /search-gifts *)

\* bodies whose query is missing, empty or no string, and bodies with a query
\* and no scope, a profile id, or a profile name
SearchInputs ==
    {[query |-> x] : x \in {Undefined, Num(5), Str(<<>>)}}
    \cup {[query |-> x] : x \in {Str(<<" ">>), Str(<<"a">>)}}
    \cup {[query |-> Str(<<"a">>), profileId |-> Uuid(1)]}
    \cup {[query |-> Str(<<"a">>), profileId |-> "p0"]}
    \cup {[query |-> Str(<<"a">>), profileId |-> Uuid(1), profileName |-> Str(<<"z">>)]}
    \cup {[query |-> Str(<<"a">>), profileName |-> Str(n)] :
             n \in {<<" ", "m">>, <<"z">>, <<"k">>}}

ReceiveSearch(r) ==
    \E tok \in Tokens : \E arg \in InputsFor(tok, SearchInputs,
                              {[query |-> Str(<<"a">>)],
                               [query |-> Str(<<"a">>), profileId |-> Uuid(1)]}) :
        Receive(r, "search", tok, arg)

\* the handler from the embedding of the query on, up to its next await
SearchEmbedStart(q) ==
    IF ~embeddingModel THEN Respond(q, Error(500, "Failed to search for gifts"))
    ELSE IF IsBlankText(q.arg.query.v)
         THEN [q EXCEPT !.pc = "read", !.loc = [@ EXCEPT !.queryEmbedding = ZeroVector]]
         ELSE [q EXCEPT !.pc = "embed"]

\* no profile id: what resolvedProfileId holds when the body names none
NoId == ""

\* let resolvedProfileId = profileId
ProfileIdOf(arg) == IF "profileId" \in DOMAIN arg THEN arg.profileId ELSE NoId

\* the name is resolved whenever one is given, profile id or not
NeedsResolveNameFirst(arg) == Truthy(Field(arg, "profileName"))

\* !resolvedProfileId && profileName
NeedsResolve(arg) ==
    /\ ProfileIdOf(arg) = NoId
    /\ Truthy(Field(arg, "profileName"))

\* item.name && item.name.toLowerCase().trim() === profileName.toLowerCase().trim()
NameMatches(item, profileName) ==
    /\ Truthy(Field(item, "name"))
    /\ Trim(ToLowerCase(Field(item, "name").v)) = Trim(ToLowerCase(profileName.v))

\* The validation of the query and the resolution of a profile name:
\* profiles[0].id, of the listing order the store happens to use.
SearchResolve(r) ==
    /\ req[r].pc = "resolve"
    /\ LET q == req[r]
           query == Field(q.arg, "query")
       IN
         IF ~Truthy(query) \/ query.t # "string" THEN
            /\ req' = [req EXCEPT ![r] = Respond(q, Error(400, "Query string is required"))]
            /\ NoCall
         ELSE IF ~NeedsResolve(q.arg) THEN
            /\ req' = [req EXCEPT ![r] = SearchEmbedStart(
                         [q EXCEPT !.loc = [resolvedProfileId |-> ProfileIdOf(q.arg),
                                            queryEmbedding |-> Undefined,
                                            notes |-> <<>>, scoredNotes |-> <<>>]])]
            /\ NoCall
         ELSE
            \E o \in CallOutcomes :
              /\ StoreCall(o)
              /\ LET qr == [q EXCEPT !.rd = TRUE]
                     allProfiles == KvGetByPrefix(kv, UserPrefix(q.user))
                     matching == {x \in allProfiles : NameMatches(x.value, q.arg.profileName)}
                 IN IF o = "fail" THEN
                       req' = [req EXCEPT ![r] =
                                 Respond(qr, Error(500, "Failed to search for gifts"))]
                    ELSE IF matching = {} THEN
                       req' = [req EXCEPT ![r] = Respond(qr, Error(404, "No profile found"))]
                    ELSE
                       \E first \in matching :
                          req' = [req EXCEPT ![r] = SearchEmbedStart(
                                    [qr EXCEPT !.loc = [resolvedProfileId |-> first.value.id,
                                                        queryEmbedding |-> Undefined,
                                            notes |-> <<>>, scoredNotes |-> <<>>]])]
    /\ UNCHANGED <<kv, memory_items, profiles, uuidCtr, embeddingModel>>

\* const queryEmbedding = await generateSimpleEmbedding(query), query not blank
SearchEmbed(r) ==
    /\ req[r].pc = "embed"
    /\ \E o \in EmbedOutcomes :
        /\ faults' = (IF o = "ok" THEN faults ELSE faults + 1)
        /\ LET q == req[r] IN
             req' = [req EXCEPT ![r] =
                       IF o = "throw"
                       THEN Respond(q, Error(500, "Failed to search for gifts"))
                       ELSE [q EXCEPT !.pc = "read",
                                      !.loc = [@ EXCEPT !.queryEmbedding =
                                                 EmbedResult(q.arg.query.v, o)]]]
    /\ UNCHANGED <<kv, memory_items, profiles, uuidCtr, embeddingModel, storeFailed>>

\* const allNotes = await kv.getByPrefix(prefix), the scoring and the answer
SearchRead(r) ==
    /\ req[r].pc = "read"
    /\ \E o \in CallOutcomes :
        /\ StoreCall(o)
        /\ LET q == [req[r] EXCEPT !.rd = TRUE]
               resolvedProfileId == q.loc.resolvedProfileId
               prefix == IF resolvedProfileId # NoId
                         THEN NotePrefix(q.user, resolvedProfileId)
                         ELSE UserPrefix(q.user)
               allNotes == KvGetByPrefix(kv, prefix)
               withEntry == {x.value : x \in {y \in allNotes : Field(y.value, "entry") # Undefined}}
           IN IF o = "fail" THEN
                 req' = [req EXCEPT ![r] = Respond(q, Error(500, "Failed to search for gifts"))]
              ELSE IF withEntry = {} THEN
                 req' = [req EXCEPT ![r] = Respond(q, Ok([gifts |-> <<>>, matchedNotes |-> <<>>]))]
              ELSE
                 \E notes \in Listings(withEntry) :
                    LET scoredNotes == ScoredNotes(notes, q.loc.queryEmbedding) IN
                    req' = [req EXCEPT ![r] = Respond(
                              [q EXCEPT !.loc = [@ EXCEPT !.notes = notes,
                                                          !.scoredNotes = scoredNotes]],
                              Ok(
                              [usedProfile |-> IF resolvedProfileId = NoId
                                               THEN "all-profiles" ELSE resolvedProfileId,
                               totalNotesSearched |-> Len(notes),
                               relevantNotes |-> [i \in 1..Len(scoredNotes) |->
                                                    RelevantData(scoredNotes[i])]]))]
    /\ UNCHANGED <<kv, memory_items, profiles, uuidCtr, embeddingModel>>

----------------------------------------------------------------------------
(* What the stores hold *)

\* the profile records of user u in the key-value store
KvProfiles(u) == {x.value : x \in {y \in kv : Len(y.key) = 4 /\ y.key[2] = u}}

\* the note records and the category records stored under profile p of user u
KvNotes(u, p) == {x.value : x \in KvGetByPrefix(kv, NotePrefix(u, p))}
KvCategories(u, p) == {x.value : x \in KvGetByPrefix(kv, CategoryPrefix(u, p))}

\* the ids of all notes stored under profiles of user u
KvNoteIds(u) ==
    {x.value.id : x \in {y \in kv : Len(y.key) = 6 /\ y.key[2] = u /\ y.key[5] = "note"}}

\* the ids of the MemoryRows of user u
MirrorNoteIds(u) == {x.id : x \in {y \in memory_items : y.user_id = u}}

\* request r has just answered: this step ends its handler
Completes(r) == req[r].pc # "done" /\ req'[r].pc = "done"

Succeeded(q) == q.resp.code = 200

----------------------------------------------------------------------------
(* Claims *)

\* every request sent so far is a submit, deleteNote or deleteProfile of user u
OnlyNoteWritersOf(u) ==
    \A r \in Requests :
        req[r].pc # "idle" =>
            /\ req[r].tok = (IF u = "u1" THEN "tok1" ELSE "tok2")
            /\ req[r].op \in {"submit", "deleteNote", "deleteProfile"}

\* C1: for every interleaving of submit, deleteNote and deleteProfile requests
\* of one user, whenever no request is in flight and no store call has
\* failed, the note ids stored under the user's profiles in the key-value
\* store are the ids of the user's MemoryRows in the mirror.
C1_StoresAgreeWhenQuiescent ==
    \A u \in Users :
        (Quiescent /\ ~storeFailed /\ OnlyNoteWritersOf(u))
            => KvNoteIds(u) = MirrorNoteIds(u)

\* the MemoryRows of profile p of user u, and the mirror's record of profile p
MirrorRows(u, p) == {x \in memory_items : x.user_id = u /\ x.profile_id = p}
MirrorProfile(u, p) == {x \in profiles : x.user_id = u /\ x.id = p}

\* request r takes this step
Moves(r) == req'[r] # req[r]

\* C2: when deleteProfile(u, p) returns success and no other request is in
\* flight, listNotes(u, p) and listCategories(u, p) are empty, p is no
\* profile of u any more, and the mirror holds no MemoryRow of p and no
\* profile record p; no step of deleteProfile changes a record of another
\* profile.
C2_DeleteProfileRemovesEverything ==
    [][\A r \in Requests :
         LET u == req[r].user
             p == req[r].arg.profileId
             OfProfile(x) == StartsWith(x.key, ProfileKey(u, p))
         IN
         /\ (/\ Completes(r)
             /\ req[r].op = "deleteProfile"
             /\ Succeeded(req'[r])
             /\ \A o \in Requests \ {r} : req'[o].pc \in {"idle", "done"})
            => /\ \A x \in kv' : ~OfProfile(x)
               /\ MirrorRows(u, p)' = {}
               /\ MirrorProfile(u, p)' = {}
         /\ (Moves(r) /\ req[r].op = "deleteProfile" /\ req[r].pc # "auth")
            => /\ {x \in kv' : ~OfProfile(x)} = {x \in kv : ~OfProfile(x)}
               /\ memory_items' \ MirrorRows(u, p)' = memory_items \ MirrorRows(u, p)
               /\ profiles' \ MirrorProfile(u, p)' = profiles \ MirrorProfile(u, p)]_vars

\* C3: when deleteNote(u, p, n) returns success, note n is absent from
\* listNotes(u, p) and from the mirror's MemoryRows; no step of deleteNote
\* changes another note in either store.  (Stated for a deleteNote that no
\* other request overlaps.)
C3_DeleteNoteRemovesNote ==
    [][\A r \in Requests :
         LET u == req[r].user
             p == req[r].arg.profileId
             n == req[r].arg.noteId
             IsRow(x) == x.user_id = u /\ x.profile_id = p /\ x.id = n
         IN
         /\ (/\ Completes(r)
             /\ req[r].op = "deleteNote"
             /\ Succeeded(req'[r])
             /\ req'[r].alone)
            => /\ \A x \in kv' : x.key # NoteKey(u, p, n)
               /\ \A x \in memory_items' : ~IsRow(x)
         /\ (Moves(r) /\ req[r].op = "deleteNote" /\ req[r].pc # "auth")
            => /\ {x \in kv' : x.key # NoteKey(u, p, n)} = {x \in kv : x.key # NoteKey(u, p, n)}
               /\ {x \in memory_items' : ~IsRow(x)} = {x \in memory_items : ~IsRow(x)}]_vars

\* C4: in every reachable state the key-value store holds at most 5 profile
\* records for each user.
C4_AtMostFiveProfiles ==
    \A u \in Users : Cardinality(KvProfiles(u)) <= 5

\* C5: createProfile with a valid name and description succeeds for a user
\* who has exactly 4 profiles, the new profile being stored, and fails with
\* "Maximum 5 profiles allowed", writing to neither store, for a user who has
\* exactly 5.  (The number of profiles is the one the handler's limit check
\* reads; a call that succeeds is one whose store calls did not throw.)
C5_LimitOfFive ==
    \A r \in Requests :
        (req[r].op = "createProfile" /\ "count" \in DOMAIN req[r].loc) =>
            LET q == req[r] IN
            /\ q.loc.count = 5 =>
                  /\ q.pc = "done"
                  /\ q.resp = Error(400, "Maximum 5 profiles allowed")
                  /\ ~q.wr
            /\ (q.loc.count = 4 /\ q.arg = ValidProfileInput /\ q.pc = "done") =>
                  \/ /\ Succeeded(q)
                     /\ q.resp.body \in KvProfiles(q.user)
                     /\ q.resp.body.name = Str(<<"M">>)
                  \/ /\ q.resp = Error(500, "Failed to create profile")
                     /\ storeFailed

\* a fifth profile has been created, and a sixth one refused
C5_Witness ==
    \E r1, r2 \in Requests :
        /\ req[r1].op = "createProfile" /\ req[r1].pc = "done"
        /\ "count" \in DOMAIN req[r1].loc
        /\ req[r1].loc.count = 4 /\ Succeeded(req[r1])
        /\ req[r2].op = "createProfile" /\ req[r2].pc = "done"
        /\ "count" \in DOMAIN req[r2].loc
        /\ req[r2].loc.count = 5
        /\ req[r2].resp = Error(400, "Maximum 5 profiles allowed")
        /\ Cardinality(KvProfiles("u1")) = 5

\* the answers that report a failed validation of the request's body
ValidationErrors ==
    {Error(400, "Profile name is required"),
     Error(400, "Profile description is required"),
     Error(400, "Query string is required")}

\* C6: submit returns success only if every category write, every note write
\* to the key-value store and every MemoryRow upsert of that call succeeded.
C6_SubmitSuccessMeansAllWritten ==
    \A r \in Requests :
        (req[r].op = "submit" /\ req[r].pc = "done" /\ Succeeded(req[r]))
            => \A i \in 1..Len(req[r].loc.br) :
                  /\ req[r].loc.br[i].st = "fulfilled"
                  /\ req[r].loc.br[i].kind = "note" => ~req[r].loc.br[i].upsertErr

\* an embedding of exactly D = 768 components
HasFullEmbedding(x) == x.embedding.t = "array" /\ x.embedding.len = 768

\* C7: every note record submit writes to the key-value store, and every
\* MemoryRow it upserts, carries an embedding of exactly 768 components,
\* whatever the embedding provider returned.
C7_StoredEmbeddingsHaveDim ==
    /\ \A u \in Users, p \in ProfileIdInputs : \A x \in KvNotes(u, p) : HasFullEmbedding(x)
    /\ \A x \in memory_items : HasFullEmbedding(x)

NoteBranches(q) == {i \in 1..Len(q.loc.br) : q.loc.br[i].kind = "note"}
BranchIds(q, kind) == {q.loc.br[i].id : i \in {j \in 1..Len(q.loc.br) : q.loc.br[j].kind = kind}}

\* every category and every note of the body carries an id
AllCarryIds(body) ==
    /\ \A i \in 1..Len(ListOf(body, "categories")) : "id" \in DOMAIN body.categories[i]
    /\ \A i \in 1..Len(ListOf(body, "notes")) : "id" \in DOMAIN body.notes[i]

\* submit r answers success in this step, and no other request has overlapped it
SubmitDoneAlone(r) ==
    /\ Completes(r)
    /\ req[r].op = "submit"
    /\ Succeeded(req'[r])
    /\ req'[r].alone

\* an earlier submit with the same token and the same body has succeeded
SubmittedBefore(r) ==
    \E r1 \in Requests \ {r} :
        /\ req[r1].op = "submit" /\ req[r1].pc = "done" /\ Succeeded(req[r1])
        /\ req[r1].tok = req[r].tok
        /\ req[r1].arg = req[r].arg

\* after submit r: one key-value record per note of the body, carrying the
\* body's entry, and no note id stored but those stored before and the body's
KvReplaced(r) ==
    LET q == req'[r]
        u == req[r].user
        p == req[r].arg.profileId
    IN /\ \A i \in NoteBranches(q) :
            LET b == q.loc.br[i]
                found == {x \in kv' : x.key = NoteKey(u, p, b.id)}
            IN /\ Cardinality(found) = 1
               /\ \A x \in found : x.value.entry = Field(b.item, "entry")
       /\ StoredIds(u, p)'.notes = q.loc.before.notes \cup BranchIds(q, "note")

\* after submit r: the one MemoryRow with the id of note i carries its entry
RowReplaced(r, i) ==
    LET q == req'[r]
        b == q.loc.br[i]
        found == {x \in memory_items' : x.id = b.id}
    IN /\ Cardinality(found) = 1
       /\ \A x \in found : /\ x.entry = Field(b.item, "entry")
                           /\ x.user_id = q.user
                           /\ x.profile_id = q.arg.profileId

\* after submit r the ids stored under the profile are those stored before it
SameIdsAsBefore(r) ==
    LET q == req'[r]
        now == StoredIds(req[r].user, req[r].arg.profileId)'
    IN /\ now.notes = q.loc.before.notes
       /\ now.categories = q.loc.before.categories

InvalidTokens == {"none", "bad"}

\* C9: every core operation whose token is missing or fails verification
\* returns Unauthorized and performs no read and no write on the key-value
\* store or on the mirror tables.
C9_UnauthorizedTouchesNoStore ==
    \A r \in Requests :
        (req[r].pc # "idle" /\ req[r].tok \in InvalidTokens) =>
            /\ ~req[r].rd
            /\ ~req[r].wr
            /\ req[r].pc \in {"auth", "done"}
            /\ req[r].pc = "done" => req[r].resp = Unauthorized

\* a submit without a token and a search with a token that fails verification
\* have both been answered
C9_Witness ==
    \E r1, r2 \in Requests :
        /\ req[r1].op = "submit" /\ req[r1].tok = "none"
        /\ req[r1].pc = "done" /\ req[r1].resp = Unauthorized
        /\ req[r2].op = "search" /\ req[r2].tok = "bad"
        /\ req[r2].pc = "done" /\ req[r2].resp = Unauthorized

\* C10: an operation that fails input validation returns its validation
\* error without any read or write of either store by that request.
C10_ValidationTouchesNoStore ==
    \A r \in Requests :
        (req[r].pc = "done" /\ req[r].resp \in ValidationErrors)
            => ~req[r].rd /\ ~req[r].wr

\* the most branches a body has
\* request r is a search whose handler has returned
SearchDone(r) == req[r].op = "search" /\ req[r].pc = "done"

\* request r is a search whose token and query are valid
ValidSearch(r) ==
    /\ req[r].op = "search"
    /\ req[r].user # NoUser
    /\ Field(req[r].arg, "query").t = "string"
    /\ Field(req[r].arg, "query").v # <<>>

\* request r is a search scoped by a profile name only
ScopedByName(r) ==
    /\ ValidSearch(r)
    /\ "profileId" \notin DOMAIN req[r].arg
    /\ "profileName" \in DOMAIN req[r].arg

\* the profiles of user u whose name equals the given one, after lower-casing
\* and trimming both
ProfilesNamed(u, name) ==
    {p \in KvProfiles(u) : Trim(ToLowerCase(p.name.v)) = Trim(ToLowerCase(name.v))}

\* C11: when exactly one profile of the user has the given name (lower-cased
\* and trimmed), the name resolution of search yields that profile's id,
\* whatever categories and notes are stored under the same prefix.
C11_NameResolvesToProfile ==
    \A r \in Requests :
        (/\ ScopedByName(r)
         /\ "resolvedProfileId" \in DOMAIN req[r].loc
         /\ Cardinality(ProfilesNamed(req[r].user, req[r].arg.profileName)) = 1)
            => \A p \in ProfilesNamed(req[r].user, req[r].arg.profileName) :
                  req[r].loc.resolvedProfileId = p.id

\* C12: a search scoped by a name that no profile of the user has fails with
\* "No profile found" (404) and ranks no note (stated for a run in which the
\* embedding model is initialised and no call has failed).
C12_UnknownNameIsNotFound ==
    \A r \in Requests :
        (/\ SearchDone(r)
         /\ ScopedByName(r)
         /\ embeddingModel /\ faults = 0
         /\ ProfilesNamed(req[r].user, req[r].arg.profileName) = {})
            => /\ req[r].resp = Error(404, "No profile found")
               /\ "scoredNotes" \in DOMAIN req[r].loc => req[r].loc.scoredNotes = <<>>

\* the note records stored under the keys user:u:profile:p:note:*, and under
\* the note keys of any profile of user u
NotesUnder(u, p) ==
    {y.value : y \in {x \in kv : /\ Len(x.key) = 6 /\ x.key[2] = u
                                 /\ x.key[4] = p /\ x.key[5] = "note"}}
NotesOf(u) ==
    {y.value : y \in {x \in kv : Len(x.key) = 6 /\ x.key[2] = u /\ x.key[5] = "note"}}

\* the set of the elements of a sequence
Range(xs) == {xs[i] : i \in 1..Len(xs)}

\* search r has answered, and what it ranked is exactly the set of notes
\* (the "No notes found" answer when the set is empty)
RankedExactly(r, notes) ==
    /\ Succeeded(req[r])
    /\ IF notes = {}
       THEN req[r].resp.body = [gifts |-> <<>>, matchedNotes |-> <<>>]
       ELSE /\ "totalNotesSearched" \in DOMAIN req[r].resp.body
            /\ req[r].resp.body.totalNotesSearched = Cardinality(notes)
            /\ Range(req[r].loc.notes) = notes

\* no call of the run has failed and the embedding model is initialised
NoFailure == embeddingModel /\ faults = 0

\* the search inputs that give a profile id, with or without a name
ScopedById(r) == ValidSearch(r) /\ "profileId" \in DOMAIN req[r].arg
Unscoped(r) ==
    /\ ValidSearch(r)
    /\ "profileId" \notin DOMAIN req[r].arg
    /\ "profileName" \notin DOMAIN req[r].arg

\* C13: a profile id given to search is the scope as it is, with no existence
\* check and whatever profile name comes with it: the candidates are exactly
\* the notes stored under that id; with no scope they are exactly all notes
\* of the user. (The candidates of a search that ran without failure.)
C13_ScopeAndCandidates ==
    \A r \in Requests :
        (SearchDone(r) /\ NoFailure) =>
            /\ ScopedById(r) =>
                  /\ RankedExactly(r, NotesUnder(req[r].user, req[r].arg.profileId))
                  /\ req[r].loc.resolvedProfileId = req[r].arg.profileId
                  /\ "usedProfile" \in DOMAIN req[r].resp.body
                        => req[r].resp.body.usedProfile = req[r].arg.profileId
            /\ Unscoped(r) => RankedExactly(r, NotesOf(req[r].user))

\* a search by profile id and a name no profile has ranked the three notes of
\* that profile, and an unscoped one all four notes of the user
C13_Witness ==
    \E r1, r2 \in Requests :
        /\ SearchDone(r1) /\ ScopedById(r1) /\ "profileName" \in DOMAIN req[r1].arg
        /\ Succeeded(req[r1]) /\ Len(req[r1].loc.notes) = 3
        /\ SearchDone(r2) /\ Unscoped(r2)
        /\ Succeeded(req[r2]) /\ Len(req[r2].loc.notes) = 4

\* similarity s1 is greater than, or the same number as, s2
Exceeds(s1, s2) == Scaled(s1, s2) > Scaled(s2, s1)
SameSimilarity(s1, s2) == Scaled(s1, s2) = Scaled(s2, s1)

\* the place of x in the sequence xs
PositionIn(xs, x) == CHOOSE i \in 1..Len(xs) : xs[i] = x

\* search r has answered with a ranking
Ranked(r) ==
    /\ SearchDone(r)
    /\ Succeeded(req[r])
    /\ "relevantNotes" \in DOMAIN req[r].resp.body

\* C14: the results of search are in non-increasing order of similarity, and
\* results of equal similarity are in the order in which the listing of the
\* candidates returned them.
C14_RankedInOrder ==
    \A r \in Requests :
        Ranked(r) =>
            LET scored == req[r].loc.scoredNotes
                listed == req[r].loc.notes
                out == req[r].resp.body.relevantNotes
            IN /\ Len(out) = Len(scored)
               /\ \A i \in 1..Len(scored) :
                     /\ out[i].noteId = scored[i].note.id
                     /\ out[i].relevanceScore = ToFixed2Percent(scored[i].similarity)
                     /\ scored[i].note \in Range(listed)
               /\ \A i, j \in 1..Len(scored) :
                     i < j =>
                        /\ ~Exceeds(scored[j].similarity, scored[i].similarity)
                        /\ out[i].relevanceScore >= out[j].relevanceScore
                        /\ SameSimilarity(scored[i].similarity, scored[j].similarity)
                              => PositionIn(listed, scored[i].note)
                                   < PositionIn(listed, scored[j].note)

\* one search has returned three notes of equal similarity that the listing
\* gave in the order n3, n1, n2; another has moved a note listed later in
\* front of one listed earlier
C14_Witness ==
    \E r1, r2 \in Requests :
        /\ Ranked(r1) /\ Len(req[r1].loc.scoredNotes) = 3
        /\ \A i \in 1..3 :
              /\ req[r1].loc.scoredNotes[i].similarity = req[r1].loc.scoredNotes[1].similarity
              /\ req[r1].loc.notes[i].id = <<"n3", "n1", "n2">>[i]
              /\ req[r1].resp.body.relevantNotes[i].noteId = <<"n3", "n1", "n2">>[i]
        /\ Ranked(r2)
        /\ \E i, j \in 1..Len(req[r2].loc.scoredNotes) :
              /\ i < j
              /\ PositionIn(req[r2].loc.notes, req[r2].loc.scoredNotes[i].note)
                    > PositionIn(req[r2].loc.notes, req[r2].loc.scoredNotes[j].note)

\* the similarity of a stored note to the query embedding of search r
SimilarityTo(r, note) ==
    CosineSimilarity(req[r].loc.queryEmbedding,
                     OrElse(Field(note, "embedding"), Arr(0, <<>>)))

\* C15: search over n candidate notes returns exactly min(10, n) results,
\* each a different candidate, and no candidate left out is more similar to
\* the query than a returned one.
C15_TopTenOfCandidates ==
    \A r \in Requests :
        Ranked(r) =>
            LET scored == req[r].loc.scoredNotes
                listed == req[r].loc.notes
                out == req[r].resp.body.relevantNotes
                n == Len(listed)
                returned == {scored[i].note : i \in 1..Len(scored)}
            IN /\ Len(out) = (IF n < 10 THEN n ELSE 10)
               /\ req[r].resp.body.totalNotesSearched = n
               /\ Len(scored) = Len(out)
               /\ Cardinality(returned) = Len(out)
               /\ {out[i].noteId : i \in 1..Len(out)} = {x.id : x \in returned}
               /\ returned \subseteq Range(listed)
               /\ \A x \in returned : \A y \in Range(listed) \ returned :
                     ~Exceeds(SimilarityTo(r, y), SimilarityTo(r, x))

\* a search over eleven candidates has returned ten of them and left out one
\* that is less similar than some returned note
C15_Witness ==
    \E r1 \in Requests :
        /\ Ranked(r1) /\ Len(req[r1].loc.notes) = 11
        /\ Len(req[r1].resp.body.relevantNotes) = 10
        /\ \E y \in Range(req[r1].loc.notes) :
              /\ y \notin {req[r1].loc.scoredNotes[i].note : i \in 1..10}
              /\ Exceeds(req[r1].loc.scoredNotes[1].similarity, SimilarityTo(r1, y))

\* the notes in the scope of a search that names a profile id or no scope
CandidatesOf(r) ==
    IF "profileId" \in DOMAIN req[r].arg
    THEN NotesUnder(req[r].user, req[r].arg.profileId)
    ELSE NotesOf(req[r].user)

\* C16: a search with a valid, non-empty query and no candidate note answers
\* the empty "No notes found" result and never an error, whatever the
\* embedding provider does (no call to a store failing).
C16_EmptyCandidatesNeverFail ==
    \A r \in Requests :
        (/\ SearchDone(r)
         /\ ScopedById(r) \/ Unscoped(r)
         /\ ~storeFailed
         /\ CandidatesOf(r) = {})
            => req[r].resp = Ok([gifts |-> <<>>, matchedNotes |-> <<>>])

\* values a vector argument of cosineSimilarity can be: missing, empty,
\* all-zero, of 2 or of 768 components
VectorInputs ==
    {Undefined, Null, Arr(0, <<>>), ZeroVector, Arr(2, <<0, 0>>), Arr(2, <<1, 0>>),
     Arr(EmbeddingDim, <<1, 0>>), Arr(EmbeddingDim, <<0, 1>>), Arr(EmbeddingDim, <<1, 1>>)}

AllZero(vec) == \A i \in 1..Len(vec.v) : vec.v[i] = 0

\* one of the two is missing, empty or all-zero, or their lengths differ
Degenerate(a, b) ==
    \/ a.t # "array" \/ b.t # "array"
    \/ a.len = 0 \/ b.len = 0
    \/ a.len # b.len
    \/ AllZero(a) \/ AllZero(b)

\* s is the cosine of the angle between a and b
IsCosineOf(s, a, b) ==
    /\ s.den2 > 0
    /\ s.dot * s.dot * Dot(a, a) * Dot(b, b) = Dot(a, b) * Dot(a, b) * s.den2
    /\ (s.dot > 0) = (Dot(a, b) > 0)
    /\ (s.dot < 0) = (Dot(a, b) < 0)

\* C17: cosineSimilarity is exactly 0 when a vector is missing, empty,
\* all-zero or of another length than the other. In search a candidate with
\* such an embedding gets similarity 0, every other candidate gets its
\* cosine, and the search, once it has the query's embedding and the
\* listing of the candidates, does not fail.
C17_DegenerateVectorsScoreZero ==
    /\ \A a, b \in VectorInputs :
          Degenerate(a, b) => CosineSimilarity(a, b) = ZeroSimilarity
    /\ \A r \in Requests :
          (/\ SearchDone(r)
           /\ "queryEmbedding" \in DOMAIN req[r].loc
           /\ req[r].loc.queryEmbedding # Undefined
           /\ ~storeFailed)
              => /\ Succeeded(req[r])
                 /\ Ranked(r) =>
                       /\ Len(req[r].loc.scoredNotes)
                             = (IF Len(req[r].loc.notes) < 10 THEN Len(req[r].loc.notes) ELSE 10)
                       /\ \A i \in 1..Len(req[r].loc.scoredNotes) :
                             LET x == req[r].loc.scoredNotes[i]
                                 a == req[r].loc.queryEmbedding
                                 b == OrElse(Field(x.note, "embedding"), Arr(0, <<>>))
                             IN IF Degenerate(a, b)
                                THEN /\ x.similarity = ZeroSimilarity
                                     /\ req[r].resp.body.relevantNotes[i].relevanceScore = 0
                                ELSE IsCosineOf(x.similarity, a, b)

\* a search has ranked four notes: one with the query's own embedding, at
\* 100.00%, and three with an empty, a short and an all-zero embedding, at 0
C17_Witness ==
    \E r \in Requests :
        /\ Ranked(r) /\ Len(req[r].loc.scoredNotes) = 4
        /\ req[r].loc.queryEmbedding = Arr(EmbeddingDim, <<1, 0>>)
        /\ req[r].resp.body.relevantNotes[1].noteId = "n1"
        /\ req[r].resp.body.relevantNotes[1].relevanceScore = 10000
        /\ {req[r].loc.scoredNotes[i].note.embedding : i \in 2..4}
              = {Arr(0, <<>>), Arr(2, <<1, 0>>), ZeroVector}
        /\ \A i \in 2..4 : req[r].resp.body.relevantNotes[i].relevanceScore = 0

\* C18: a note stored without a generated embedding (no embedding, or an
\* empty vector) never appears in the ranked results of search.
C18_NoEmbeddingNotRanked ==
    \A r \in Requests :
        Ranked(r) =>
            \A i \in 1..Len(req[r].loc.scoredNotes) :
                LET e == Field(req[r].loc.scoredNotes[i].note, "embedding")
                IN e.t = "array" /\ e.len > 0

\* request r is a search with a valid token whose query is a string
SearchWithStringQuery(r) ==
    /\ SearchDone(r)
    /\ req[r].user # NoUser
    /\ Field(req[r].arg, "query").t = "string"

QueryRequired == Error(400, "Query string is required")

\* search r did not get, or got as the zero vector, the embedding of its
\* query, and every result it returned has similarity 0
ScoredAllZero(r) ==
    /\ ("queryEmbedding" \in DOMAIN req[r].loc /\ req[r].loc.queryEmbedding # Undefined)
          => req[r].loc.queryEmbedding = ZeroVector
    /\ Ranked(r) =>
          \A i \in 1..Len(req[r].loc.scoredNotes) :
              /\ req[r].loc.scoredNotes[i].similarity = ZeroSimilarity
              /\ req[r].resp.body.relevantNotes[i].relevanceScore = 0

C20_BlankTextEmbedsToZero ==
    \A r \in Requests :
        /\ (req[r].op = "search" /\ req[r].pc = "embed")
              => Trim(req[r].arg.query.v) # <<>>
        /\ (/\ SearchWithStringQuery(r)
            /\ Unscoped(r)
            /\ Trim(req[r].arg.query.v) = <<>>
            /\ ~storeFailed)
              => /\ "queryEmbedding" \in DOMAIN req[r].loc
                 /\ req[r].loc.queryEmbedding = ZeroVector
                 /\ Succeeded(req[r])

\* the answer of request q carries a warning beside its result
SurfacedWarning(q) == "warning" \in DOMAIN q.resp

\* C21: when, in deleteNote or deleteProfile, a delete on the mirror fails
\* after the delete on the key-value store succeeded, the operation still
\* answers success, and the failure is recorded: logged, and surfaced as a
\* warning in the answer.
C21_MirrorDeleteFailureRecorded ==
    \A r \in Requests :
        (/\ req[r].op \in {"deleteNote", "deleteProfile"}
         /\ req[r].pc = "done"
         /\ req[r].mirrorErr)
            => /\ Succeeded(req[r])
               /\ req[r].logged
               /\ SurfacedWarning(req[r])

\* the key-value rows that hold notes
KvNoteRows == {x \in kv : Len(x.key) = 6 /\ x.key[5] = "note"}

\* C23: whenever no request is in flight and no call has failed, a note
\* that is in both stores has the same entry and the same embedding in its
\* key-value record and in its MemoryRow.
C23_SameContentInBothStores ==
    (Quiescent /\ faults = 0) =>
        \A x \in KvNoteRows : \A y \in memory_items :
            (/\ y.id = x.value.id
             /\ y.user_id = x.key[2]
             /\ y.profile_id = x.key[4])
                => /\ y.entry = x.value.entry
                   /\ y.embedding = x.value.embedding

\* C25: a MemoryRow that submit has written for a profile carries as
\* profile_name the display name the profile has in the key-value store (no
\* profile is ever renamed, so that is its name at the time of the submit);
\* the rows of one submit call carry one and the same profile_name.
C25_RowsCarryProfileName ==
    /\ \A y \in memory_items : \A p \in KvProfiles(y.user_id) :
          p.id = y.profile_id => y.profile_name = p.name
    /\ \A r \in Requests :
          (req[r].op = "submit" /\ req[r].alone /\ req[r].pc = "done"
             /\ "br" \in DOMAIN req[r].loc)
             => \A y \in memory_items :
                   y.id \in BranchIds(req[r], "note") => y.profile_name = req[r].loc.profileName

\* C26: no step of a submit by user u creates, changes or removes a
\* MemoryRow or a key-value record of another user, also when u submits a
\* note id that a note of the other user has.
C26_SubmitLeavesOthersRecords ==
    [][\A r \in Requests :
         (Moves(r) /\ req[r].op = "submit" /\ req[r].pc \notin {"idle", "auth"})
            => /\ {y \in memory_items' : y.user_id # req[r].user}
                     = {y \in memory_items : y.user_id # req[r].user}
               /\ {x \in kv' : x.key[2] # req[r].user}
                     = {x \in kv : x.key[2] # req[r].user}]_vars

\* profile p of user u has its record in the key-value store
ProfileStored(u, p) == \E x \in kv : x.key = ProfileKey(u, p)

\* C27: whenever no request is in flight (and no call has failed), every
\* note record and category record of the key-value store and every
\* MemoryRow belongs to a profile that the key-value store holds for the
\* same user.
C27_NoRecordWithoutProfile ==
    (Quiescent /\ faults = 0) =>
        /\ \A x \in kv : Len(x.key) = 6 => ProfileStored(x.key[2], x.key[4])
        /\ \A y \in memory_items : ProfileStored(y.user_id, y.profile_id)

\* C28: what listProfiles, listCategories, listNotes and search return to
\* user u are records whose owner is u, stored under keys of u, whatever
\* profile id, profile name or query u sends and whatever others have stored.
C28_ReadsReturnOwnRecords ==
    \A r \in Requests :
        (req[r].pc = "done" /\ Succeeded(req[r])) =>
            LET u == req[r].user
                Own(x) == /\ x.userId = u
                          /\ \A y \in kv : y.value = x => y.key[2] = u
            IN /\ req[r].op \in {"listProfiles", "listCategories", "listNotes"}
                     => \A x \in req[r].resp.body : Own(x)
               /\ Ranked(r)
                     => /\ \A i \in 1..Len(req[r].loc.notes) : Own(req[r].loc.notes[i])
                        /\ \A i \in 1..Len(req[r].loc.scoredNotes) :
                              /\ Own(req[r].loc.scoredNotes[i].note)
                              /\ req[r].resp.body.relevantNotes[i].entry
                                    = req[r].loc.scoredNotes[i].note.entry

\* user u1 has submitted a note under profile g01, and the notes of profile
\* id g01 listed for user u2 are none
C28_Witness ==
    \E r1, r2 \in Requests :
        /\ req[r1].op = "submit" /\ req[r1].user = "u1" /\ req[r1].pc = "done"
        /\ Succeeded(req[r1])
        /\ NotesUnder("u1", Uuid(1)) # {}
        /\ req[r2].op = "listNotes" /\ req[r2].user = "u2" /\ req[r2].pc = "done"
        /\ req[r2].arg.profileId = Uuid(1)
        /\ req[r2].resp = Ok({})

\* the vector -v
Neg(vec) == Arr(vec.len, [i \in 1..Len(vec.v) |-> 0 - vec.v[i]])

\* similarity s is the number 1, and the number -1
IsOne(s) == s.dot > 0 /\ s.dot * s.dot = s.den2
IsMinusOne(s) == s.dot < 0 /\ s.dot * s.dot = s.den2

\* vectors with components of either sign, and vectors with none that is
\* not zero
SignedVectors ==
    {Arr(2, <<1, 0>>), Arr(2, <<-1, 2>>), Arr(3, <<2, -2, 1>>),
     Arr(EmbeddingDim, <<1, 1>>), Arr(EmbeddingDim, <<-1, 0>>),
     Arr(0, <<>>), Arr(2, <<0, 0>>), ZeroVector}

MaxBranches == 2

----------------------------------------------------------------------------
(* The search handler over stores that already hold notes: what submit and *)
(* create-profile have written before the searches start.                  *)

\* the note submit stores for an entry when the provider's answer is o
StockNote(p, id, entry, o) ==
    NoteRecord("u1", p, id, NoteInput(id, Str(entry)),
               IF IsBlankText(entry) THEN ZeroVector ELSE EmbedResult(entry, o))

\* the ids of the notes of the large stock
ManyIds == <<"m01", "m02", "m03", "m04", "m05", "m06", "m07", "m08", "m09", "m10", "m11">>
ManyEntry(i) ==
    CASE i % 3 = 1 -> <<"a">>
      [] i % 3 = 2 -> <<"c">>
      [] OTHER -> <<"b">>

StockCategory(p, id, name) == CategoryRecord("u1", p, id, [id |-> id, name |-> Str(name)])

\* no note at all
StockEmpty == [np |-> MaxProfiles - 1, categories |-> {}, notes |-> {}]
\* three notes with the same entry under one profile, a fourth under another
StockTies ==
    [np |-> MaxProfiles - 1, categories |-> {},
     notes |-> {StockNote(Uuid(1), "n1", <<"a">>, "ok"), StockNote(Uuid(1), "n2", <<"a">>, "ok"),
                StockNote(Uuid(1), "n3", <<"a">>, "ok"), StockNote(Uuid(2), "n4", <<"b">>, "ok")}]
\* more notes than search returns
StockMany ==
    [np |-> MaxProfiles - 1, categories |-> {},
     notes |-> {StockNote(Uuid(1), ManyIds[i], ManyEntry(i), "ok") : i \in 1..Len(ManyIds)}]
\* notes whose embedding is the provider's answer without values, a vector of
\* another length, or the zero vector of a blank entry
StockDegenerate ==
    [np |-> MaxProfiles - 1, categories |-> {},
     notes |-> {StockNote(Uuid(1), "n1", <<"a">>, "ok"),
                StockNote(Uuid(1), "n2", <<"a">>, "novalues"),
                StockNote(Uuid(1), "n3", <<"a">>, "short"),
                StockNote(Uuid(1), "n4", <<" ">>, "ok")}]
\* one profile, named "M", with a category of the same name and a category
\* named as no profile is
StockShadow ==
    [np |-> 1,
     categories |-> {StockCategory(Uuid(1), "c1", <<"m">>), StockCategory(Uuid(1), "c2", <<"z">>)},
     notes |-> {StockNote(Uuid(1), "n1", <<"a">>, "ok"), StockNote(Uuid(1), "n2", <<"n">>, "ok")}]

Stocks == {StockEmpty, StockTies, StockMany, StockDegenerate, StockShadow}

SearchInit ==
    \E stock \in Stocks :
        /\ kv = {[key |-> ProfileKey("u1", Uuid(i)), value |-> InitProfile(i)] : i \in 1..stock.np}
                \cup {[key |-> CategoryKey("u1", c.profileId, c.id), value |-> c] :
                         c \in stock.categories}
                \cup {[key |-> NoteKey("u1", n.profileId, n.id), value |-> n] : n \in stock.notes}
        /\ profiles = {ProfileRow(InitProfile(i)) : i \in 1..stock.np}
        /\ memory_items = {MemoryRow("u1", n.profileId, n.id, n, n.embedding,
                                     Str(InitName(CHOOSE i \in 1..stock.np :
                                                     Uuid(i) = n.profileId))) :
                             n \in stock.notes}
        /\ uuidCtr = stock.np
        /\ req = [r \in Requests |-> IdleRequest]
        /\ embeddingModel \in BOOLEAN
        /\ faults = 0
        /\ storeFailed = FALSE

SearchNext ==
    \E r \in Requests :
        \/ ReceiveSearch(r)
        \/ Auth(r)
        \/ SearchResolve(r)
        \/ SearchEmbed(r)
        \/ SearchRead(r)

SearchSpec == SearchInit /\ [][SearchNext]_vars

----------------------------------------------------------------------------

----------------------------------------------------------------------------
(* Calls that are never answered.  No await of submit or of search-gifts is
   raced against a timer and no call is given an abort signal: when the
   provider or a store never answers, the promise awaited stays pending. *)

\* embeddingModel.embedContent(text) of search-gifts never answers
SearchEmbedNeverAnswers(r) ==
    /\ req[r].pc = "embed"
    /\ faults < MaxFaults
    /\ faults' = faults + 1
    /\ req' = [req EXCEPT ![r] = [@ EXCEPT !.pc = "pending"]]
    /\ UNCHANGED <<kv, memory_items, profiles, uuidCtr, embeddingModel, storeFailed>>

\* kv.getByPrefix(prefix) of search-gifts never answers
SearchReadNeverAnswers(r) ==
    /\ req[r].pc = "read"
    /\ faults < MaxFaults
    /\ faults' = faults + 1
    /\ req' = [req EXCEPT ![r] = [@ EXCEPT !.pc = "pending", !.rd = TRUE]]
    /\ UNCHANGED <<kv, memory_items, profiles, uuidCtr, embeddingModel, storeFailed>>

\* embeddingModel.embedContent(text) of a note of submit never answers: the
\* note's promise stays pending, and so does Promise.all unless another
\* branch rejects
SubmitNoteEmbedNeverAnswers(r, i) ==
    /\ BranchAt(r, i, "note", "embed")
    /\ faults < MaxFaults
    /\ faults' = faults + 1
    /\ req' = [req EXCEPT ![r] =
                 Settle(req[r], [req[r].loc.br EXCEPT ![i].st = "pending"], "")]
    /\ UNCHANGED <<kv, memory_items, profiles, uuidCtr, embeddingModel, storeFailed>>

\* kv.set of a note of submit never answers
SubmitNoteKvSetNeverAnswers(r, i) ==
    /\ BranchAt(r, i, "note", "kvset")
    /\ faults < MaxFaults
    /\ faults' = faults + 1
    /\ req' = [req EXCEPT ![r] =
                 Settle([req[r] EXCEPT !.wr = TRUE],
                        [req[r].loc.br EXCEPT ![i].st = "pending"], "")]
    /\ UNCHANGED <<kv, memory_items, profiles, uuidCtr, embeddingModel, storeFailed>>

\* the requests followed where the steps are taken fairly: what another
\* request does neither resumes a pending call nor settles a branch
MaxFairRequests == 1

\* submit and search-gifts, with calls that may never be answered
TimeoutNext ==
    \E r \in 1..MaxFairRequests :
        \/ ReceiveSubmit(r)
        \/ ReceiveSearch(r)
        \/ Auth(r)
        \/ SearchResolve(r)
        \/ SearchEmbed(r)
        \/ SearchRead(r)
        \/ SearchEmbedNeverAnswers(r)
        \/ SearchReadNeverAnswers(r)
        \/ SubmitLookup(r)
        \/ \E i \in 1..MaxBranches :
              \/ SubmitCategorySet(r, i)
              \/ SubmitNoteEmbed(r, i)
              \/ SubmitNoteKvSet(r, i)
              \/ SubmitNoteUpsert(r, i)
              \/ SubmitNoteEmbedNeverAnswers(r, i)
              \/ SubmitNoteKvSetNeverAnswers(r, i)

\* Every continuation that is ready is run by the event loop, and every call
\* that is answered resumes its handler: a step that stays possible is taken.
TimeoutSpec == Init /\ [][TimeoutNext]_vars /\ WF_vars(TimeoutNext)

\* C22: every submit and every search request is answered in the end, also
\* when the embedding provider or a store never answers a call.
C22_EveryRequestAnswered ==
    \A r \in Requests :
        (req[r].op \in {"submit", "search"} /\ req[r].pc = "auth")
            ~> (req[r].resp # NoResponse)

----------------------------------------------------------------------------
(* The branches of one submit, every call answered *)

SubmitNext ==
    \E r \in 1..MaxFairRequests :
        \/ ReceiveSubmit(r)
        \/ Auth(r)
        \/ SubmitLookup(r)
        \/ \E i \in 1..MaxBranches :
              \/ SubmitCategorySet(r, i)
              \/ SubmitNoteEmbed(r, i)
              \/ SubmitNoteKvSet(r, i)
              \/ SubmitNoteUpsert(r, i)

\* The promises of the branches are created before Promise.all is awaited and
\* nothing cancels them: each call that is answered resumes its branch.
SubmitSpec == Init /\ [][SubmitNext]_vars /\ WF_vars(SubmitNext)

\* submit r has a branch that failed
HasRejected(r) ==
    /\ req[r].op = "submit" /\ req[r].pc \in {"branches", "done"}
    /\ "br" \in DOMAIN req[r].loc
    /\ \E j \in 1..Len(req[r].loc.br) : req[r].loc.br[j].st = "rejected"

\* the writes branch b of submit q has applied so far are in the stores
WritesApplied(q, b) ==
    IF b.kind = "category"
    THEN b.st = "fulfilled" =>
            [key |-> CategoryKey(q.user, q.arg.profileId, b.id),
             value |-> CategoryRecord(q.user, q.arg.profileId, b.id, b.item)] \in kv
    ELSE /\ b.st \in {"upsert", "fulfilled"} =>
               [key |-> NoteKey(q.user, q.arg.profileId, b.id),
                value |-> NoteRecord(q.user, q.arg.profileId, b.id, b.item, b.embedding)]
                   \in kv
         /\ (b.st = "fulfilled" /\ ~b.upsertErr) =>
               MemoryRow(q.user, q.arg.profileId, b.id, b.item, b.embedding,
                         q.loc.profileName) \in memory_items

\* the branches of submit r that failed through the call of another branch:
\* a note fails by itself without the embedding model, any branch by a call
\* of its own that failed
Cancelled(r) ==
    LET br == req[r].loc.br
        rejected == {i \in 1..Len(br) : br[i].st = "rejected"}
        unembedded == {i \in rejected : br[i].kind = "note" /\ ~embeddingModel}
    IN Cardinality(rejected \ unembedded) > faults

\* the state of branch i of submit r
BranchSt(r, i) ==
    IF "br" \in DOMAIN req[r].loc /\ i \in 1..Len(req[r].loc.br)
    THEN req[r].loc.br[i].st ELSE "none"

\* no request but r has been sent
OnlyRequest(r) == \A o \in Requests \ {r} : req[o].pc = "idle"

\* C24: when a branch of a submit has failed, (1) every write a sibling has
\* applied is and stays in the stores (as long as no other request writes),
\* (2) no step of the submit removes a key or a row, (3) every sibling
\* still running, once no further call fails, runs on until it is fulfilled,
\* also after the error response has been given, and (4) no branch is ended
\* by the failure of another.
C24_FailedBranchLeavesSiblings ==
    /\ [](\A r \in Requests : HasRejected(r) => ~Cancelled(r))
    /\ [](\A r \in Requests :
            (HasRejected(r) /\ OnlyRequest(r)) =>
                \A i \in 1..Len(req[r].loc.br) : WritesApplied(req[r], req[r].loc.br[i]))
    /\ [][\A r \in Requests :
            (HasRejected(r) /\ Moves(r)) =>
                /\ \A x \in kv : \E y \in kv' : y.key = x.key
                /\ \A x \in memory_items : \E y \in memory_items' : y.id = x.id]_vars
    /\ \A r \in Requests : \A i \in 1..MaxBranches :
          (/\ HasRejected(r) /\ faults = MaxFaults
           /\ BranchSt(r, i) \in {"kvset", "embed", "upsert"})
            ~> (BranchSt(r, i) = "fulfilled")

\* without the embedding model the note of a submit fails before any call is
\* made and the answer is 500; the category of the same submit was written
\* after that
C24_Witness ==
    \E r \in Requests :
        /\ ~embeddingModel
        /\ req[r].op = "submit" /\ req[r].pc = "done" /\ req[r].resp.code = 500
        /\ Len(req[r].loc.br) = 2
        /\ req[r].loc.br[1].kind = "category" /\ req[r].loc.br[1].st = "fulfilled"
        /\ req[r].loc.br[2].st = "rejected"
        /\ \E x \in kv : x.key = CategoryKey(req[r].user, req[r].arg.profileId,
                                              req[r].loc.br[1].id)

----------------------------------------------------------------------------
(* NotesPage: the page of one profile of user u1.  The state of the component
   (categories, notes, activeCategory) is kept in loc of request 1; each
   fetch of the page runs its handler to the answer, as the page awaits it. *)

\* the edits made on the page in one behaviour
MaxEdits == 3

\* what the page remembers of its last Submit: nothing yet
NoSubmit == [taken |-> FALSE]

\* const [categories, setCategories] = useState([]); ... useEffect(loadData)
PageRequest ==
    [IdleRequest EXCEPT
       !.op = "notesPage", !.tok = "tok1", !.user = "u1", !.pc = "mount",
       !.arg = [profileId |-> Uuid(1)],
       !.loc = [categories |-> <<>>, notes |-> <<>>, activeCategory |-> "",
                edits |-> 0, last |-> "mount", failed |-> FALSE,
                deletedCategory |-> FALSE, submitted |-> NoSubmit]]

\* one category with one note, saved by an earlier Submit
StockSaved ==
    [np |-> 1,
     categories |-> {StockCategory(Uuid(1), "c1", <<"k">>)},
     notes |-> {StockNote(Uuid(1), "n1", <<"a">>, "ok")}]

PageStocks == {[StockEmpty EXCEPT !.np = 1], StockSaved}

PageInit ==
    \E stock \in PageStocks :
        /\ kv = {[key |-> ProfileKey("u1", Uuid(i)), value |-> InitProfile(i)] : i \in 1..stock.np}
                \cup {[key |-> CategoryKey("u1", c.profileId, c.id), value |-> c] :
                         c \in stock.categories}
                \cup {[key |-> NoteKey("u1", n.profileId, n.id), value |-> n] : n \in stock.notes}
        /\ profiles = {ProfileRow(InitProfile(i)) : i \in 1..stock.np}
        /\ memory_items = {MemoryRow("u1", n.profileId, n.id, n, n.embedding,
                                     Str(InitName(1))) : n \in stock.notes}
        /\ uuidCtr = stock.np
        /\ req = [r \in Requests |-> IF r = 1 THEN PageRequest ELSE IdleRequest]
        /\ embeddingModel \in BOOLEAN
        /\ faults = 0
        /\ storeFailed = FALSE

Page(r) == req[r].op = "notesPage"

\* what the screen shows: the fields of the interfaces Category and Note
ShownCategories(cs) == {[id |-> cs[i].id, name |-> cs[i].name] : i \in 1..Len(cs)}
ShownNotes(ns) ==
    {[id |-> ns[i].id, entry |-> ns[i].entry, categoryId |-> ns[i].categoryId] :
        i \in 1..Len(ns)}

\* a local edit of the page: the state of the component after it
Edited(q, name, categories, notes, activeCategory) ==
    [q EXCEPT !.pc = "ready",
              !.loc = [@ EXCEPT !.categories = categories, !.notes = notes,
                                !.activeCategory = activeCategory,
                                !.edits = @ + 1, !.last = name,
                                !.failed = FALSE, !.submitted = NoSubmit]]

\* loadData of a page just mounted: GET .../categories and GET .../notes;
\* setCategories(categoriesData.categories || []), setNotes(notesData.notes
\* || []), and the first category becomes the active one. A listing that
\* fails answers { error }, which leaves the list empty.
LoadData(r) ==
    /\ Page(r)
    /\ \E f \in {"none"} \cup (IF faults < MaxFaults THEN {"categories", "notes"} ELSE {}) :
        /\ faults' = (IF f = "none" THEN faults ELSE faults + 1)
        /\ storeFailed' = (storeFailed \/ f # "none")
        /\ LET q == req[r]
               cs == {x.value : x \in KvGetByPrefix(kv, CategoryPrefix(q.user, q.arg.profileId))}
               ns == {x.value : x \in KvGetByPrefix(kv, NotePrefix(q.user, q.arg.profileId))}
           IN \E categories \in (IF f = "categories" THEN {<<>>} ELSE Listings(cs)) :
              \E notes \in (IF f = "notes" THEN {<<>>} ELSE Listings(ns)) :
                 req' = [req EXCEPT ![r] =
                    [q EXCEPT !.pc = "ready", !.rd = TRUE,
                              !.loc = [@ EXCEPT
                                  !.categories = categories, !.notes = notes,
                                  !.activeCategory =
                                      IF Len(categories) > 0 THEN categories[1].id ELSE "",
                                  !.last = "loadData", !.failed = (f # "none"),
                                  !.deletedCategory = FALSE]]]
    /\ UNCHANGED <<kv, memory_items, profiles, uuidCtr, embeddingModel>>

CategoryNames == {<<"k">>, <<" ">>}

\* addCategory: nothing for a blank name; else a category with a fresh id
AddCategory(r) ==
    /\ Page(r) /\ req[r].pc = "ready" /\ req[r].loc.edits < MaxEdits
    /\ \E newCategoryName \in CategoryNames :
        /\ ~IsBlankText(newCategoryName)
        /\ LET q == req[r]
               newCategory == [id |-> Uuid(uuidCtr + 1), name |-> Str(newCategoryName)]
           IN req' = [req EXCEPT ![r] =
                        Edited(q, "addCategory", Append(q.loc.categories, newCategory),
                               q.loc.notes, newCategory.id)]
    /\ uuidCtr' = uuidCtr + 1
    /\ UNCHANGED <<kv, memory_items, profiles, embeddingModel, faults, storeFailed>>

\* deleteCategory: the category and its notes leave the state of the page;
\* no request is sent
DeleteCategory(r) ==
    /\ Page(r) /\ req[r].pc = "ready" /\ req[r].loc.edits < MaxEdits
    /\ \E i \in 1..Len(req[r].loc.categories) :
        LET q == req[r]
            categoryId == q.loc.categories[i].id
            KeepCategory(c) == c.id # categoryId
            KeepNote(n) == n.categoryId # categoryId
            e == Edited(q, "deleteCategory", SelectSeq(q.loc.categories, KeepCategory),
                        SelectSeq(q.loc.notes, KeepNote),
                        IF q.loc.activeCategory = categoryId /\ Len(q.loc.categories) > 0
                        THEN q.loc.categories[1].id ELSE q.loc.activeCategory)
        IN req' = [req EXCEPT ![r] = [e EXCEPT !.loc = [@ EXCEPT !.deletedCategory = TRUE]]]
    /\ UNCHANGED <<kv, memory_items, profiles, uuidCtr, embeddingModel, faults, storeFailed>>

\* addNote: an empty note in the active category
AddNote(r) ==
    /\ Page(r) /\ req[r].pc = "ready" /\ req[r].loc.edits < MaxEdits
    /\ req[r].loc.activeCategory # ""
    /\ LET q == req[r]
           newNote == [id |-> Uuid(uuidCtr + 1), entry |-> Str(<<>>),
                       categoryId |-> q.loc.activeCategory]
       IN req' = [req EXCEPT ![r] =
                    Edited(q, "addNote", q.loc.categories, Append(q.loc.notes, newNote),
                           q.loc.activeCategory)]
    /\ uuidCtr' = uuidCtr + 1
    /\ UNCHANGED <<kv, memory_items, profiles, embeddingModel, faults, storeFailed>>

NoteTexts == {<<"a">>, <<"b">>}

\* updateNote(noteId, 'entry', value)
UpdateNote(r) ==
    /\ Page(r) /\ req[r].pc = "ready" /\ req[r].loc.edits < MaxEdits
    /\ \E i \in 1..Len(req[r].loc.notes) : \E value \in NoteTexts :
        LET q == req[r] IN
        /\ q.loc.notes[i].entry # Str(value)
        /\ req' = [req EXCEPT ![r] =
                     Edited(q, "updateNote", q.loc.categories,
                            [q.loc.notes EXCEPT ![i] = [@ EXCEPT !.entry = Str(value)]],
                            q.loc.activeCategory)]
    /\ UNCHANGED <<kv, memory_items, profiles, uuidCtr, embeddingModel, faults, storeFailed>>

\* deleteNote: DELETE .../notes/:noteId (kv.del, then the delete of the row
\* of memory_items; a kv.del that fails ends the handler), whatever the
\* answer the note leaves the state of the page
PageDeleteNote(r) ==
    /\ Page(r) /\ req[r].pc = "ready" /\ req[r].loc.edits < MaxEdits
    /\ \E i \in 1..Len(req[r].loc.notes) :
       \E f \in {"none"} \cup (IF faults < MaxFaults THEN {"kv", "mirror"} ELSE {}) :
        LET q == req[r]
            noteId == q.loc.notes[i].id
            KeepNote(n) == n.id # noteId
            Matches(x) ==
                x.user_id = q.user /\ x.profile_id = q.arg.profileId /\ x.id = noteId
        IN /\ faults' = (IF f = "none" THEN faults ELSE faults + 1)
           /\ storeFailed' = (storeFailed \/ f # "none")
           /\ kv' = (IF f = "kv" THEN kv
                     ELSE KvDel(kv, NoteKey(q.user, q.arg.profileId, noteId)))
           /\ memory_items' = (IF f = "none" THEN TableDelete(memory_items, Matches)
                               ELSE memory_items)
           /\ req' = [req EXCEPT ![r] =
                        [Edited(q, "deleteNote", q.loc.categories,
                                SelectSeq(q.loc.notes, KeepNote), q.loc.activeCategory)
                           EXCEPT !.wr = TRUE]]
    /\ UNCHANGED <<profiles, uuidCtr, embeddingModel>>

\* the kv.set calls of the categories of a body, but that of branch skip
RECURSIVE WriteCategories(_, _, _, _, _, _)
WriteCategories(store, u, p, cs, n, skip) ==
    IF n = 0 THEN store
    ELSE LET before == WriteCategories(store, u, p, cs, n - 1, skip) IN
         IF n = skip THEN before
         ELSE KvSet(before, CategoryKey(u, p, cs[n].id),
                    CategoryRecord(u, p, cs[n].id, cs[n]))

\* the embedding submit computes for a note when the provider answers
NoteEmbedding(x) ==
    LET textContent == OrElse(Field(x, "entry"), Str(<<>>)).v IN
    IF IsBlankText(textContent) THEN ZeroVector ELSE EmbedResult(textContent, "ok")

\* the kv.set calls of the notes of a body, but that of branch skip
RECURSIVE WriteNotes(_, _, _, _, _, _)
WriteNotes(store, u, p, ns, n, skip) ==
    IF n = 0 THEN store
    ELSE LET before == WriteNotes(store, u, p, ns, n - 1, skip) IN
         IF n = skip THEN before
         ELSE KvSet(before, NoteKey(u, p, ns[n].id),
                    NoteRecord(u, p, ns[n].id, ns[n], NoteEmbedding(ns[n])))

\* the upserts into memory_items of the notes of a body, but that of skip
RECURSIVE UpsertNotes(_, _, _, _, _, _, _)
UpsertNotes(table, u, p, ns, n, skip, profileName) ==
    IF n = 0 THEN table
    ELSE LET before == UpsertNotes(table, u, p, ns, n - 1, skip, profileName) IN
         IF n = skip THEN before
         ELSE TableUpsert(before, MemoryRow(u, p, ns[n].id, ns[n], NoteEmbedding(ns[n]),
                                            profileName))

\* handleSubmit: POST .../submit with { categories, notes } of the screen.
\* The handler writes every category and every note of the body and deletes
\* nothing; one branch may fail (the answer is then 500 and the other
\* branches are written), and without the embedding model every note fails.
\* The page shows a toast and keeps its state.
HandleSubmit(r) ==
    /\ Page(r) /\ req[r].pc = "ready"
    /\ LET q == req[r]
           u == q.user
           p == q.arg.profileId
           cs == q.loc.categories
           ns == q.loc.notes
           rows == {x \in profiles : x.user_id = u /\ x.id = p}
           profileNameForMemory == IF rows = {} THEN Null ELSE (CHOOSE x \in rows : TRUE).name
       IN \E skip \in 0..(IF faults < MaxFaults /\ embeddingModel THEN Len(cs) + Len(ns) ELSE 0) :
            LET ok == skip = 0 /\ (embeddingModel \/ Len(ns) = 0)
                categoriesWritten == WriteCategories(kv, u, p, cs, Len(cs), skip)
            IN /\ faults' = (IF skip = 0 THEN faults ELSE faults + 1)
               /\ storeFailed' = (storeFailed \/ (skip > 0 /\ skip <= Len(cs)))
               /\ kv' = (IF embeddingModel
                         THEN WriteNotes(categoriesWritten, u, p, ns, Len(ns), skip - Len(cs))
                         ELSE categoriesWritten)
               /\ memory_items' = (IF embeddingModel
                                   THEN UpsertNotes(memory_items, u, p, ns, Len(ns),
                                                    skip - Len(cs), profileNameForMemory)
                                   ELSE memory_items)
               /\ req' = [req EXCEPT ![r] =
                    [q EXCEPT !.wr = TRUE,
                              !.loc = [@ EXCEPT
                                  !.last = "handleSubmit", !.failed = ~ok,
                                  !.submitted =
                                      IF ok THEN [taken |-> TRUE,
                                                  deleted |-> q.loc.deletedCategory,
                                                  categories |-> ShownCategories(cs),
                                                  notes |-> ShownNotes(ns)]
                                      ELSE NoSubmit]]]
    /\ UNCHANGED <<profiles, uuidCtr, embeddingModel>>

PageNext ==
    \E r \in Requests :
        \/ LoadData(r)
        \/ AddCategory(r)
        \/ DeleteCategory(r)
        \/ AddNote(r)
        \/ UpdateNote(r)
        \/ PageDeleteNote(r)
        \/ HandleSubmit(r)

PageSpec == PageInit /\ [][PageNext]_vars

\* C30: when a category was deleted on screen and a Submit then succeeded,
\* the data the page loads next is exactly the categories and notes that
\* were on screen at that Submit.
C30_ReloadShowsWhatWasSubmitted ==
    \A r \in Requests :
        (/\ Page(r) /\ req[r].loc.last = "loadData" /\ ~req[r].loc.failed
         /\ req[r].loc.submitted.taken /\ req[r].loc.submitted.deleted)
        => /\ ShownCategories(req[r].loc.categories) = req[r].loc.submitted.categories
           /\ ShownNotes(req[r].loc.notes) = req[r].loc.submitted.notes

Next ==
    \E r \in Requests :
        \/ ReceiveListProfiles(r)
        \/ ReceiveCreateProfile(r)
        \/ ReceiveDeleteProfile(r)
        \/ ReceiveListCategories(r)
        \/ ReceiveListNotes(r)
        \/ ReceiveDeleteNote(r)
        \/ Auth(r)
        \/ ListProfiles(r)
        \/ CreateProfileCheck(r)
        \/ CreateProfileKvSet(r)
        \/ CreateProfileUpsert(r)
        \/ DeleteProfileReadNotes(r)
        \/ DeleteProfileReadCategories(r)
        \/ DeleteProfileMdel(r)
        \/ DeleteProfileMemoryItems(r)
        \/ DeleteProfileRow(r)
        \/ ListCategories(r)
        \/ ListNotes(r)
        \/ DeleteNoteKvDel(r)
        \/ DeleteNoteMemoryItem(r)
        \/ ReceiveSubmit(r)
        \/ ReceiveSearch(r)
        \/ SearchResolve(r)
        \/ SearchEmbed(r)
        \/ SearchRead(r)
        \/ SubmitLookup(r)
        \/ \E i \in 1..MaxBranches :
              \/ SubmitCategorySet(r, i)
              \/ SubmitNoteEmbed(r, i)
              \/ SubmitNoteKvSet(r, i)
              \/ SubmitNoteUpsert(r, i)

Spec == Init /\ [][Next]_vars

====
